---- MODULE Spec2Model ----
(***************************************************************************)
(* SmartCache (src/caching/smart_cache_demo.py): an exact-fingerprint      *)
(* response cache with a per-model similarity index, kept in Redis or, when *)
(* the connectivity probe fails at construction, in an in-process dict.     *)
(*                                                                          *)
(* Python values are modelled as follows.  A str is a TLA+ string; the      *)
(* characters of the strings that are scanned (user text, model ids) are    *)
(* given by Chars.  None is the empty tuple and any other optional value x  *)
(* is <<x>>.  A message dict is the sequence of its <<key, value>> items in *)
(* insertion order.  Time is a discrete clock of seconds, now.              *)
(*                                                                          *)
(* Spec is one instance called sequentially; ThreadSpec runs the calls in   *)
(* threads, statement by statement; MessagesSpec, ScanSpec and PayloadSpec  *)
(* call the same methods with message lists of every shape, with an index   *)
(* of more records than a lookup scans, and on a Redis that another client  *)
(* writes to; AnalyzerSpec is the loop of SmartCacheAnalyzer that consumes  *)
(* the cache.                                                                *)
(***************************************************************************)
EXTENDS Integers, Sequences, FiniteSets, TLC

VARIABLES
    cache_available,  \* self.cache_available
    memory_cache,     \* self.memory_cache: key -> entry (fallback backend)
    cache_stats,      \* self.cache_stats
    redis_strings,    \* Redis string keys: key -> [value, exp]
    redis_hashes,     \* Redis hash keys: key -> [message, response_key, created, has_ttl, exp]
    now,              \* the clock, in seconds
    probe,            \* history: outcome of redis.ping() in __init__
    puts,             \* history: request -> what the most recent cache_response on it wrote
    put_calls,        \* history: the number of cache_response calls made
    gets,             \* history: the get_cached_response calls made and those that returned an entry
    last,             \* the call that has just returned, with its arguments and result
    pc,               \* thread -> the statement the thread is at, when calls run in threads
    frame,            \* thread -> the arguments and locals of the thread's call
    analyzer          \* the run of SmartCacheAnalyzer.analyze_caching_scenario, when one uses the instance

vars == <<cache_available, memory_cache, cache_stats, redis_strings, redis_hashes,
          now, probe, puts, put_calls, gets, last, pc, frame, analyzer>>

----------------------------------------------------------------------------
(* Bounds of the model *)

MaxTime == 1
MaxPuts == 2
MaxGets == 3

----------------------------------------------------------------------------
(* Python values *)

None == <<>>
Some(x) == <<x>>

Min(x, y) == IF x <= y THEN x ELSE y

\* The empty dict.
EmptyDict == [k \in {} |-> None]

\* d[k] = v
DictSet(d, k, v) == [x \in DOMAIN d \cup {k} |-> IF x = k THEN v ELSE d[x]]

\* del d[k]
DictDel(d, k) == [x \in DOMAIN d \ {k} |-> d[x]]

\* d.get(k)
DictGet(d, k) == IF k \in DOMAIN d THEN Some(d[k]) ELSE None

\* The characters of the strings the code scans: the texts and model ids of
\* the requests, and the decimal numerals below 100.
Chars(s) ==
    CASE s = "" -> <<>>
      [] s = "abc" -> <<"a", "b", "c">>
      [] s = "Abc" -> <<"A", "b", "c">>
      [] s = "abd" -> <<"a", "b", "d">>
      [] s = "a" -> <<"a">>
      [] s = "a:b" -> <<"a", ":", "b">>
      [] s = "*" -> <<"*">>
      [] s \in {ToString(n) : n \in 0..99} ->
            LET n == CHOOSE n \in 0..99 : s = ToString(n)
            IN  IF n < 10 THEN <<ToString(n)>>
                ELSE <<ToString(n \div 10), ToString(n % 10)>>

\* str.lower() of one character.
LowerChar(c) == IF c = "A" THEN "a" ELSE c

\* str.lower()
Lower(cs) == [i \in 1..Len(cs) |-> LowerChar(cs[i])]

----------------------------------------------------------------------------
(* Inputs *)

User(text) == <<<<"role", "user">>, <<"content", text>>>>
Assistant(text) == <<<<"role", "assistant">>, <<"content", text>>>>

Request(model_id, messages, max_tokens) ==
    [model_id |-> model_id, messages |-> messages, max_tokens |-> max_tokens]

\* max_tokens is None or an int; both are written as their Python text.
BaseRequest == Request("a", <<User("abc")>>, "None")

\* The requests that are cached: the base request, one for a model whose id
\* starts with the base model's id and a ':', and one whose user text is the
\* base request's in another case.
PutRequests ==
    { BaseRequest,
      Request("a:b", <<User("abd")>>, "None"),
      Request("a", <<User("Abc")>>, "None") }

\* The requests that are looked up: the cached ones, the requests that differ
\* from the base request in one field (the model, max_tokens, the content or
\* the order of the messages), with and without a user message, and a request
\* for a model id that is a glob.
GetRequests ==
    PutRequests \cup
    { Request("a:b", <<User("abc")>>, "None"),
      Request("a", <<User("abc")>>, "150"),
      Request("a", <<User("abd")>>, "None"),
      Request("a", <<Assistant("abd"), User("abc")>>, "None"),
      Request("a", <<User("abc"), Assistant("abd")>>, "None"),
      Request("a", <<>>, "None"),
      Request("a", <<Assistant("abc")>>, "None"),
      Request("*", <<User("abd")>>, "None") }

Responses == {"R1", "R2"}

\* ttl, in seconds.
TTLs == {0, 1}

\* similarity_threshold, in hundredths.
Thresholds == {50, 85}

\* The Redis command of a call that fails (a connection error), if any: the
\* GET of the exact entry, KEYS, HGET, or the GET of a referenced entry in a
\* lookup; SETEX or HSET in a store (a failure of EXPIRE alone is not drawn).
GetFailures == {"none", "get_exact", "keys", "hget", "get_response"}
PutFailures == {"none", "setex", "hset"}

----------------------------------------------------------------------------
(* Keys *)

\* hashlib.md5(text).hexdigest(), taken to be free of collisions: the digest
\* stands for the text it was computed from.
Md5(text) == <<"md5", text>>

\* The values of a dict's key, as dict.get(key, default) finds it.
ItemGet(d, key, default) ==
    IF \E i \in 1..Len(d) : d[i][1] = key
    THEN d[CHOOSE i \in 1..Len(d) : d[i][1] = key][2]
    ELSE default

\* The keys of a message dict, in the order sort_keys=True writes them.
SortedKeys == <<"content", "role">>

\* json.dumps(d) of one message dict without sort_keys: its items, in
\* insertion order.
DumpsItems(d) == d

\* json.dumps(d, sort_keys=True) of one message dict: its items, by key.
DumpsSortedItems(d) ==
    LET present == SelectSeq(SortedKeys, LAMBDA k : \E i \in 1..Len(d) : d[i][1] = k)
    IN  [i \in 1..Len(present) |-> <<present[i], ItemGet(d, present[i], "")>>]

\* json.dumps of max_tokens.
DumpsMaxTokens(max_tokens) == IF max_tokens = "None" THEN "null" ELSE max_tokens

\* _generate_cache_key with max_tokens left out of cache_content.
_generate_cache_key_without_max_tokens(model_id, messages, max_tokens) ==
    LET content_str ==
            << <<"messages", [i \in 1..Len(messages) |-> DumpsSortedItems(messages[i])]>>,
               <<"model", model_id>> >>
    IN  [prefix |-> "claude_cache", digest |-> Md5(content_str)]

\* SmartCache._generate_cache_key
_generate_cache_key(model_id, messages, max_tokens) ==
    LET content_str ==
            << <<"max_tokens", DumpsMaxTokens(max_tokens)>>,
               <<"messages", [i \in 1..Len(messages) |-> DumpsSortedItems(messages[i])]>>,
               <<"model", model_id>> >>
    IN  [prefix |-> "claude_cache", digest |-> Md5(content_str)]

\* str.strip(): the characters without the leading and the trailing
\* whitespace.
Strip(cs) ==
    LET Solid == {i \in 1..Len(cs) : cs[i] \notin {" ", "\t", "\n"}}
    IN  IF Solid = {} THEN <<>>
        ELSE SubSeq(cs, CHOOSE i \in Solid : \A j \in Solid : i <= j,
                        CHOOSE i \in Solid : \A j \in Solid : j <= i)

\* SmartCache._generate_semantic_key (called by no method): the key of the
\* text lowercased, stripped and without '?', '.' and '!'.
_generate_semantic_key(user_message) ==
    LET normalized == SelectSeq(Strip(Lower(Chars(user_message))),
                                LAMBDA c : c \notin {"?", ".", "!"})
    IN  [prefix |-> "semantic", digest |-> Md5(normalized)]

\* The exact key of a request.
KeyOfRequest(request) ==
    _generate_cache_key(request.model_id, request.messages, request.max_tokens)

\* The semantic key f"semantic_index:{model_id}:{md5(user_message)[:12]}" of
\* SmartCache._create_semantic_index.  The twelve hex digits hold no ':', so
\* the key string and the pair (model_id, digest) determine each other.
SemanticKey(model_id, user_message) ==
    [model_id |-> model_id, digest |-> Md5(user_message)]

\* The characters of a semantic key; the digest is one block of hex digits.
KeyChars(key) == <<"semantic_index", ":">> \o Chars(key.model_id) \o <<":", "hex12">>

\* The pattern f"semantic_index:{model_id}:*" of _find_similar_cached_response.
Pattern(model_id) == <<"semantic_index", ":">> \o Chars(model_id) \o <<":", "*">>

\* Redis glob matching of KEYS: '*' matches any run of characters, any other
\* character of the model's alphabet matches itself.
RECURSIVE GlobMatch(_, _)
GlobMatch(p, s) ==
    IF p = <<>> THEN s = <<>>
    ELSE IF Head(p) = "*"
         THEN GlobMatch(Tail(p), s) \/ (s # <<>> /\ GlobMatch(p, Tail(s)))
         ELSE s # <<>> /\ Head(s) = Head(p) /\ GlobMatch(Tail(p), Tail(s))

----------------------------------------------------------------------------
(* difflib.SequenceMatcher(None, a, b).ratio() *)

\* The length of the common run of a[i..ahi-1] and b[j..bhi-1] from their starts.
RunLength(a, b, i, j, ahi, bhi) ==
    LET n == Min(ahi - i, bhi - j)
        K == {k \in 0..n : \A d \in 0..(k - 1) : a[i + d] = b[j + d]}
    IN  CHOOSE k \in K : \A k2 \in K : k2 <= k

\* find_longest_match: the longest block a[i..i+size-1] = b[j..j+size-1] within
\* a[alo..ahi-1] and b[blo..bhi-1], the earliest in a and then in b among the
\* longest ones.
find_longest_match(a, b, alo, ahi, blo, bhi) ==
    LET Blocks == {m \in [i : alo..(ahi - 1), j : blo..(bhi - 1), size : 1..Min(ahi - alo, bhi - blo)] :
                      m.size = RunLength(a, b, m.i, m.j, ahi, bhi)}
        Better(m, n) == \/ m.size > n.size
                        \/ m.size = n.size /\ m.i < n.i
                        \/ m.size = n.size /\ m.i = n.i /\ m.j <= n.j
    IN  IF Blocks = {} THEN [i |-> alo, j |-> blo, size |-> 0]
        ELSE CHOOSE m \in Blocks : \A n \in Blocks : Better(m, n)

\* get_matching_blocks: the number of characters in the matching blocks.
RECURSIVE MatchingChars(_, _, _, _, _, _)
MatchingChars(a, b, alo, ahi, blo, bhi) ==
    LET m == find_longest_match(a, b, alo, ahi, blo, bhi)
    IN  IF m.size = 0 THEN 0
        ELSE m.size
             + (IF alo < m.i /\ blo < m.j
                THEN MatchingChars(a, b, alo, m.i, blo, m.j) ELSE 0)
             + (IF m.i + m.size < ahi /\ m.j + m.size < bhi
                THEN MatchingChars(a, b, m.i + m.size, ahi, m.j + m.size, bhi) ELSE 0)

\* ratio(): 2.0 * matches / (len(a) + len(b)), 1.0 when both are empty, as the
\* fraction num / den.
Ratio(a, b) ==
    IF Len(a) + Len(b) = 0 THEN [num |-> 1, den |-> 1]
    ELSE [num |-> 2 * MatchingChars(a, b, 1, Len(a) + 1, 1, Len(b) + 1),
          den |-> Len(a) + Len(b)]

\* x > y and x >= threshold / 100 on fractions.
Greater(x, y) == x.num * y.den > y.num * x.den
AtLeast(x, threshold) == x.num * 100 >= threshold * x.den

----------------------------------------------------------------------------
(* Redis.  A command raises when the connection fails (fails = TRUE) or the   *)
(* server rejects it; its outcome is [raised, value] for a read and            *)
(* [raised, strings] or [raised, hashes] for a write.                          *)

\* GET key
redis_get(key, fails) ==
    IF fails THEN [raised |-> TRUE, value |-> None]
    ELSE [raised |-> FALSE,
          value |-> IF key \in DOMAIN redis_strings
                    THEN Some(redis_strings[key].value) ELSE None]

\* SETEX key ttl value: the server rejects a ttl that is not positive.
redis_setex(key, ttl, value, fails) ==
    IF fails \/ ttl <= 0 THEN [raised |-> TRUE, strings |-> redis_strings]
    ELSE [raised |-> FALSE,
          strings |-> DictSet(redis_strings, key, [value |-> value, exp |-> now + ttl])]

\* KEYS pattern: the set of the hash keys that match.
redis_keys(pattern) == {k \in DOMAIN redis_hashes : GlobMatch(pattern, KeyChars(k))}

\* HGET key field
redis_hget(key, field, fails) ==
    IF fails THEN [raised |-> TRUE, value |-> None]
    ELSE [raised |-> FALSE,
          value |-> IF key \in DOMAIN redis_hashes
                    THEN Some(redis_hashes[key][field]) ELSE None]

\* HSET key mapping: a new hash has no ttl, an existing one keeps its own.
redis_hset(key, message, response_key, created, fails) ==
    IF fails THEN [raised |-> TRUE, hashes |-> redis_hashes]
    ELSE [raised |-> FALSE,
          hashes |-> DictSet(redis_hashes, key,
                        [message |-> message, response_key |-> response_key,
                         created |-> created,
                         has_ttl |-> IF key \in DOMAIN redis_hashes
                                     THEN redis_hashes[key].has_ttl ELSE FALSE,
                         exp |-> IF key \in DOMAIN redis_hashes
                                 THEN redis_hashes[key].exp ELSE 0])]

\* EXPIRE key ttl on the hashes an HSET left: a ttl that is not positive
\* deletes the key.
redis_expire(hashes, key, ttl, fails) ==
    IF fails THEN [raised |-> TRUE, hashes |-> hashes]
    ELSE IF key \notin DOMAIN hashes THEN [raised |-> FALSE, hashes |-> hashes]
    ELSE IF ttl <= 0 THEN [raised |-> FALSE, hashes |-> DictDel(hashes, key)]
    ELSE [raised |-> FALSE,
          hashes |-> [hashes EXCEPT ![key].has_ttl = TRUE, ![key].exp = now + ttl]]

\* The keys whose ttl has run out at time t are gone.
Unexpired(strings, t) == [k \in {x \in DOMAIN strings : strings[x].exp > t} |-> strings[k]]
UnexpiredHashes(hashes, t) ==
    [k \in {x \in DOMAIN hashes : ~hashes[x].has_ttl \/ hashes[x].exp > t} |-> hashes[k]]

----------------------------------------------------------------------------
(* Cache entries *)

\* An entry dict without the key 'cache_type'.
NoCacheType == "(absent)"

\* The cache_entry of cache_response.
CacheEntry(response, timestamp, model_id, ttl) ==
    [response |-> response, timestamp |-> timestamp, model_id |-> model_id,
     ttl |-> ttl, cache_type |-> NoCacheType]

\* json.dumps(entry): the items of the dict, in insertion order.
JsonDumps(entry) ==
    << <<"response", entry.response>>, <<"timestamp", entry.timestamp>>,
       <<"model_id", entry.model_id>>, <<"ttl", entry.ttl>> >>
    \o (IF entry.cache_type = NoCacheType THEN <<>>
        ELSE << <<"cache_type", entry.cache_type>> >>)

\* json.loads(text) of a JSON object: the dict of the items, by the keys of
\* an entry; a key the object does not hold has the default.
JsonLoads(text) ==
    [response |-> ItemGet(text, "response", ""),
     timestamp |-> ItemGet(text, "timestamp", 0),
     model_id |-> ItemGet(text, "model_id", ""),
     ttl |-> ItemGet(text, "ttl", 0),
     cache_type |-> ItemGet(text, "cache_type", NoCacheType)]

\* json.loads(text) raises (JSONDecodeError): the text is no JSON document, as
\* a serialization cut off after the key of an item.
JsonDecodeError(text) == \E i \in 1..Len(text) : Len(text[i]) # 2

\* cached['cache_type'] = tag
Tagged(entry, tag) == [entry EXCEPT !.cache_type = tag]

\* The selection when the messages are scanned from the start: the content of
\* the first message with role 'user'.
RECURSIVE FirstUserMessage(_)
FirstUserMessage(messages) ==
    IF messages = <<>> THEN None
    ELSE IF ItemGet(messages[1], "role", "") = "user"
         THEN Some(ItemGet(messages[1], "content", ""))
         ELSE FirstUserMessage(Tail(messages))

\* The user text both methods select: the content of the last message with
\* role 'user' (msg.get('content', '')), None when there is none.
RECURSIVE LastUserMessage(_)
LastUserMessage(messages) ==
    IF messages = <<>> THEN None
    ELSE IF ItemGet(messages[Len(messages)], "role", "") = "user"
         THEN Some(ItemGet(messages[Len(messages)], "content", ""))
         ELSE LastUserMessage(SubSeq(messages, 1, Len(messages) - 1))

\* if user_message: neither None nor ''
Truthy(user_message) == user_message # None /\ user_message[1] # ""

----------------------------------------------------------------------------
(* SmartCache.  A method is the record of what it leaves: raised (an          *)
(* exception left the method), its return value, and the attributes and the   *)
(* Redis keys it may write.                                                    *)

\* keys[:20]
ScanLimit == 20

\* _get_from_cache with the test of the Redis answer inverted
\* (json.loads(cached) if not cached else None).
_get_from_cache_inverted(key, fails) ==
    IF cache_available
    THEN LET cached == redis_get(key, fails)
         IN  [raised |-> FALSE, value |-> None]
    ELSE [raised |-> FALSE, value |-> DictGet(memory_cache, key)]

\* _get_from_cache without its try/except.
_get_from_cache_uncaught(key, fails) ==
    IF cache_available
    THEN LET cached == redis_get(key, fails)
         IN  IF cached.value # None /\ JsonDecodeError(cached.value[1])
             THEN [raised |-> TRUE, value |-> None]
             ELSE [raised |-> cached.raised,
                   value |-> IF cached.value # None
                             THEN Some(JsonLoads(cached.value[1])) ELSE None]
    ELSE [raised |-> FALSE, value |-> DictGet(memory_cache, key)]

\* SmartCache._get_from_cache
_get_from_cache(key, fails) ==
    IF cache_available
    THEN LET cached == redis_get(key, fails)
         IN  IF cached.raised
             THEN [raised |-> FALSE, value |-> None]                \* except: return None
             ELSE IF cached.value # None /\ JsonDecodeError(cached.value[1])
             THEN [raised |-> FALSE, value |-> None]                \* except: return None
             ELSE [raised |-> FALSE,
                   value |-> IF cached.value # None
                             THEN Some(JsonLoads(cached.value[1])) ELSE None]
    ELSE [raised |-> FALSE, value |-> DictGet(memory_cache, key)]

\* _store_in_cache that writes to Redis only.
_store_in_cache_redis_only(key, value, ttl, fails) ==
    LET set == redis_setex(key, ttl, JsonDumps(value), fails)
    IN  [raised |-> FALSE,
         cache_available |-> cache_available,
         redis_strings |-> IF cache_available THEN set.strings ELSE redis_strings,
         memory_cache |-> memory_cache]

\* _store_in_cache that switches to the dict when the Redis write fails.
_store_in_cache_falls_back(key, value, ttl, fails) ==
    IF cache_available
    THEN LET set == redis_setex(key, ttl, JsonDumps(value), fails)
         IN  [raised |-> FALSE,
              cache_available |-> ~set.raised,
              redis_strings |-> set.strings,
              memory_cache |-> IF set.raised THEN DictSet(memory_cache, key, value)
                               ELSE memory_cache]
    ELSE [raised |-> FALSE,
          cache_available |-> cache_available,
          redis_strings |-> redis_strings,
          memory_cache |-> DictSet(memory_cache, key, value)]

\* _store_in_cache that keeps nothing but the entry it writes.
_store_in_cache_replacing_all(key, value, ttl, fails) ==
    IF cache_available
    THEN LET set == redis_setex(key, ttl, JsonDumps(value), fails)
         IN  [raised |-> FALSE,
              cache_available |-> cache_available,
              redis_strings |-> IF set.raised THEN redis_strings
                                ELSE [k \in {key} |-> set.strings[key]],
              memory_cache |-> memory_cache]
    ELSE [raised |-> FALSE,
          cache_available |-> cache_available,
          redis_strings |-> redis_strings,
          memory_cache |-> [k \in {key} |-> value]]

\* _store_in_cache without its try/except.
_store_in_cache_uncaught(key, value, ttl, fails) ==
    IF cache_available
    THEN LET set == redis_setex(key, ttl, JsonDumps(value), fails)
         IN  [raised |-> set.raised,
              cache_available |-> cache_available,
              redis_strings |-> set.strings,
              memory_cache |-> memory_cache]
    ELSE [raised |-> FALSE,
          cache_available |-> cache_available,
          redis_strings |-> redis_strings,
          memory_cache |-> DictSet(memory_cache, key, value)]

\* SmartCache._store_in_cache
_store_in_cache(key, value, ttl, fails) ==
    IF cache_available
    THEN LET set == redis_setex(key, ttl, JsonDumps(value), fails)
         IN  [raised |-> FALSE,                                     \* except: pass
              cache_available |-> cache_available,
              redis_strings |-> set.strings,
              memory_cache |-> memory_cache]
    ELSE [raised |-> FALSE,
          cache_available |-> cache_available,
          redis_strings |-> redis_strings,
          memory_cache |-> DictSet(memory_cache, key, value)]

\* _create_semantic_index that writes the semantic key as the reference.
_create_semantic_index_referring_to_itself(model_id, user_message, response_key, ttl, failure) ==
    IF ~cache_available THEN [raised |-> FALSE, redis_hashes |-> redis_hashes]
    ELSE LET semantic_key == SemanticKey(model_id, user_message)
             set == redis_hset(semantic_key, user_message, semantic_key, now,
                               failure = "hset")
             expire == redis_expire(set.hashes, semantic_key, ttl, failure = "expire")
         IN  IF set.raised
             THEN [raised |-> FALSE, redis_hashes |-> redis_hashes]
             ELSE [raised |-> FALSE, redis_hashes |-> expire.hashes]

\* _create_semantic_index without the test of cache_available (lines 149-150).
_create_semantic_index_on_any_backend(model_id, user_message, response_key, ttl, failure) ==
    LET semantic_key == SemanticKey(model_id, user_message)
        set == redis_hset(semantic_key, user_message, response_key, now,
                          failure = "hset")
        expire == redis_expire(set.hashes, semantic_key, ttl, failure = "expire")
    IN  IF set.raised
        THEN [raised |-> FALSE, redis_hashes |-> redis_hashes]
        ELSE [raised |-> FALSE, redis_hashes |-> expire.hashes]

\* SmartCache._create_semantic_index
_create_semantic_index(model_id, user_message, response_key, ttl, failure) ==
    IF ~cache_available THEN [raised |-> FALSE, redis_hashes |-> redis_hashes]
    ELSE LET semantic_key == SemanticKey(model_id, user_message)
             set == redis_hset(semantic_key, user_message, response_key, now,
                               failure = "hset")
             expire == redis_expire(set.hashes, semantic_key, ttl, failure = "expire")
         IN  IF set.raised
             THEN [raised |-> FALSE, redis_hashes |-> redis_hashes]  \* except: pass
             ELSE [raised |-> FALSE, redis_hashes |-> expire.hashes]

\* The loop of _find_similar_cached_response when a reference that finds no
\* entry leaves best_match as it was (best_match = ... or best_match).
RECURSIVE ScanFrom_keeping_best_match(_, _, _, _, _, _, _)
ScanFrom_keeping_best_match(keys, i, user_message, threshold, failure, best_match, best_similarity) ==
    IF i > Len(keys) THEN [raised |-> FALSE, value |-> best_match]
    ELSE
    LET key == keys[i]
        cached_message == redis_hget(key, "message", failure = "hget")
        similarity == Ratio(Lower(Chars(user_message)),
                            Lower(Chars(cached_message.value[1])))
        response_key == redis_hget(key, "response_key", failure = "hget")
        response == _get_from_cache(response_key.value[1], failure = "get_response")
    IN  IF cached_message.raised THEN [raised |-> TRUE, value |-> None]
        ELSE IF cached_message.value = None \/ cached_message.value[1] = ""
        THEN ScanFrom_keeping_best_match(keys, i + 1, user_message, threshold, failure,
                                         best_match, best_similarity)
        ELSE IF ~(Greater(similarity, best_similarity) /\ AtLeast(similarity, threshold))
        THEN ScanFrom_keeping_best_match(keys, i + 1, user_message, threshold, failure,
                                         best_match, best_similarity)
        ELSE IF response_key.raised THEN [raised |-> TRUE, value |-> None]
        ELSE IF response_key.value = None
        THEN ScanFrom_keeping_best_match(keys, i + 1, user_message, threshold, failure,
                                         best_match, similarity)
        ELSE IF response.raised THEN [raised |-> TRUE, value |-> None]
        ELSE ScanFrom_keeping_best_match(keys, i + 1, user_message, threshold, failure,
                                         IF response.value = None THEN best_match
                                         ELSE response.value,
                                         similarity)

\* The loop of _find_similar_cached_response over keys[i..], from the
\* best_match and best_similarity reached so far.
RECURSIVE ScanFrom(_, _, _, _, _, _, _)
ScanFrom(keys, i, user_message, threshold, failure, best_match, best_similarity) ==
    IF i > Len(keys) THEN [raised |-> FALSE, value |-> best_match]
    ELSE
    LET key == keys[i]
        cached_message == redis_hget(key, "message", failure = "hget")
        similarity == Ratio(Lower(Chars(user_message)),
                            Lower(Chars(cached_message.value[1])))
        response_key == redis_hget(key, "response_key", failure = "hget")
        response == _get_from_cache(response_key.value[1], failure = "get_response")
    IN  IF cached_message.raised THEN [raised |-> TRUE, value |-> None]
        ELSE IF cached_message.value = None \/ cached_message.value[1] = ""
        THEN ScanFrom(keys, i + 1, user_message, threshold, failure,
                      best_match, best_similarity)
        ELSE IF ~(Greater(similarity, best_similarity) /\ AtLeast(similarity, threshold))
        THEN ScanFrom(keys, i + 1, user_message, threshold, failure,
                      best_match, best_similarity)
        ELSE IF response_key.raised THEN [raised |-> TRUE, value |-> None]
        ELSE IF response_key.value = None
        THEN ScanFrom(keys, i + 1, user_message, threshold, failure,
                      best_match, similarity)
        ELSE IF response.raised THEN [raised |-> TRUE, value |-> None]
        ELSE ScanFrom(keys, i + 1, user_message, threshold, failure,
                      response.value, similarity)

\* _find_similar_cached_response without its try/except.
_find_similar_cached_response_uncaught(user_message, model_id, threshold, keys, failure) ==
    IF ~cache_available THEN [raised |-> FALSE, value |-> None]
    ELSE IF failure = "keys" THEN [raised |-> TRUE, value |-> None]
    ELSE ScanFrom(SubSeq(keys, 1, Min(ScanLimit, Len(keys))), 1,
                  user_message, threshold, failure, None, [num |-> 0, den |-> 1])

\* _find_similar_cached_response that scans every key KEYS answers (for key
\* in keys).
_find_similar_cached_response_scanning_all(user_message, model_id, threshold, keys, failure) ==
    IF ~cache_available THEN [raised |-> FALSE, value |-> None]
    ELSE LET scan == IF failure = "keys" THEN [raised |-> TRUE, value |-> None]
                     ELSE ScanFrom(keys, 1, user_message, threshold, failure,
                                   None, [num |-> 0, den |-> 1])
         IN  IF scan.raised
             THEN [raised |-> FALSE, value |-> None]
             ELSE scan

\* SmartCache._find_similar_cached_response; keys is the list redis.keys returns.
_find_similar_cached_response(user_message, model_id, threshold, keys, failure) ==
    IF ~cache_available THEN [raised |-> FALSE, value |-> None]
    ELSE LET scan == IF failure = "keys" THEN [raised |-> TRUE, value |-> None]
                     ELSE ScanFrom(SubSeq(keys, 1, Min(ScanLimit, Len(keys))), 1,
                                   user_message, threshold, failure,
                                   None, [num |-> 0, den |-> 1])
         IN  IF scan.raised
             THEN [raised |-> FALSE, value |-> None]                \* except: return None
             ELSE scan

\* get_cached_response without the count of the miss at its end (line 90).
get_cached_response_without_miss_count(model_id, messages, max_tokens, similarity_threshold, keys, failure) ==
    LET counted == [cache_stats EXCEPT !.total_requests = @ + 1]
        exact_key == _generate_cache_key(model_id, messages, max_tokens)
        cached == _get_from_cache(exact_key, failure = "get_exact")
        user_message == LastUserMessage(messages)
        similar_response ==
            _find_similar_cached_response(user_message[1], model_id,
                                          similarity_threshold, keys, failure)
    IN  IF cached.value # None
        THEN [raised |-> FALSE,
              ret |-> Some(Tagged(cached.value[1], "exact_match")),
              cache_stats |-> [counted EXCEPT !.hits = @ + 1],
              memory_cache |-> IF cache_available THEN memory_cache
                               ELSE DictSet(memory_cache, exact_key,
                                            Tagged(cached.value[1], "exact_match"))]
        ELSE IF messages # <<>> /\ Truthy(user_message) /\ similar_response.value # None
        THEN [raised |-> FALSE,
              ret |-> Some(Tagged(similar_response.value[1], "semantic_match")),
              cache_stats |-> [counted EXCEPT !.hits = @ + 1],
              memory_cache |-> memory_cache]
        ELSE [raised |-> FALSE, ret |-> None, cache_stats |-> counted,
              memory_cache |-> memory_cache]

\* SmartCache.get_cached_response
get_cached_response(model_id, messages, max_tokens, similarity_threshold, keys, failure) ==
    LET counted == [cache_stats EXCEPT !.total_requests = @ + 1]
        exact_key == _generate_cache_key(model_id, messages, max_tokens)
        cached == _get_from_cache(exact_key, failure = "get_exact")
        user_message == LastUserMessage(messages)
        similar_response ==
            _find_similar_cached_response(user_message[1], model_id,
                                          similarity_threshold, keys, failure)
    IN  IF cached.raised
        THEN [raised |-> TRUE, ret |-> None, cache_stats |-> counted,
              memory_cache |-> memory_cache]
        ELSE IF cached.value # None
        THEN [raised |-> FALSE,
              ret |-> Some(Tagged(cached.value[1], "exact_match")),
              cache_stats |-> [counted EXCEPT !.hits = @ + 1],
              \* the dict the fallback returns is the stored one
              memory_cache |-> IF cache_available THEN memory_cache
                               ELSE DictSet(memory_cache, exact_key,
                                            Tagged(cached.value[1], "exact_match"))]
        ELSE IF messages # <<>> /\ Truthy(user_message) /\ similar_response.raised
        THEN [raised |-> TRUE, ret |-> None, cache_stats |-> counted,
              memory_cache |-> memory_cache]
        ELSE IF messages # <<>> /\ Truthy(user_message) /\ similar_response.value # None
        THEN [raised |-> FALSE,
              ret |-> Some(Tagged(similar_response.value[1], "semantic_match")),
              cache_stats |-> [counted EXCEPT !.hits = @ + 1],
              memory_cache |-> memory_cache]
        ELSE [raised |-> FALSE, ret |-> None,
              cache_stats |-> [counted EXCEPT !.misses = @ + 1],
              memory_cache |-> memory_cache]

\* SmartCache.cache_response
cache_response(model_id, messages, response, max_tokens, ttl, failure) ==
    LET cache_key == _generate_cache_key(model_id, messages, max_tokens)
        cache_entry == CacheEntry(response, now, model_id, ttl)
        stored == _store_in_cache(cache_key, cache_entry, ttl, failure = "setex")
        user_message == LastUserMessage(messages)
        indexed == _create_semantic_index(model_id, user_message[1], cache_key, ttl,
                                          failure)
    IN  IF stored.raised
        THEN [raised |-> TRUE, cache_available |-> stored.cache_available,
              redis_strings |-> stored.redis_strings, redis_hashes |-> redis_hashes,
              memory_cache |-> stored.memory_cache]
        ELSE IF Truthy(user_message)
        THEN [raised |-> indexed.raised, cache_available |-> stored.cache_available,
              redis_strings |-> stored.redis_strings,
              redis_hashes |-> indexed.redis_hashes,
              memory_cache |-> stored.memory_cache]
        ELSE [raised |-> FALSE, cache_available |-> stored.cache_available,
              redis_strings |-> stored.redis_strings, redis_hashes |-> redis_hashes,
              memory_cache |-> stored.memory_cache]

\* round(hits / total * 100, 1) in tenths of a percent; Python rounds a tie to
\* the even neighbour.
HitRateTenths(hits, total) ==
    IF total = 0 THEN 0
    ELSE LET q == (1000 * hits) \div total
             r == (1000 * hits) % total
         IN  IF 2 * r > total \/ (2 * r = total /\ q % 2 = 1) THEN q + 1 ELSE q

\* get_cache_stats that cuts the hit rate off after one decimal.
get_cache_stats_truncating ==
    [total_requests |-> cache_stats.total_requests,
     cache_hits |-> cache_stats.hits,
     cache_misses |-> cache_stats.misses,
     hit_rate_percentage |-> IF cache_stats.total_requests = 0 THEN 0
                             ELSE (1000 * cache_stats.hits) \div cache_stats.total_requests,
     estimated_cost_savings |-> cache_stats.cost_savings,
     cache_backend |-> IF cache_available THEN "redis" ELSE "memory"]

\* SmartCache.get_cache_stats
get_cache_stats ==
    [total_requests |-> cache_stats.total_requests,
     cache_hits |-> cache_stats.hits,
     cache_misses |-> cache_stats.misses,
     hit_rate_percentage |-> HitRateTenths(cache_stats.hits, cache_stats.total_requests),
     estimated_cost_savings |-> cache_stats.cost_savings,
     cache_backend |-> IF cache_available THEN "redis" ELSE "memory"]

----------------------------------------------------------------------------
(* The state machine: one SmartCache instance and its caller *)

\* The threads that call the instance when calls run concurrently.
Threads == {1, 2}

\* The frame of a thread that is in no call.
IdleFrame ==
    [op |-> "none", request |-> None, threshold |-> 0, response |-> "", ttl |-> 0,
     failure |-> "none", counter |-> "", tmp |-> 0, cached |-> None,
     keys |-> <<>>, i |-> 0, best_match |-> None,
     best_similarity |-> [num |-> 0, den |-> 1],
     match_similarity |-> [num |-> 0, den |-> 1],
     similarity |-> [num |-> 0, den |-> 1], response_key |-> None,
     dangling |-> FALSE, ret |-> None]

\* No analyzer runs.
NoAnalyzer ==
    [queries |-> <<>>, i |-> 0, at |-> "none", read_failed |-> FALSE, log |-> <<>>]

\* SmartCache.__init__: ping_ok is whether redis.ping() returned; the bare
\* except takes whatever the connection raises.
__init__(ping_ok) ==
    [raised |-> FALSE,
     cache_available |-> ping_ok,
     memory_cache |-> EmptyDict,
     cache_stats |-> [hits |-> 0, misses |-> 0, total_requests |-> 0,
                      cost_savings |-> 0]]

\* No call has returned since the caller took the last result.
NoCall == [op |-> "none", args |-> None, raised |-> FALSE, ret |-> None]

\* The lists that hold each key of a set once: the orders KEYS may answer in.
RECURSIVE Orders(_)
Orders(S) ==
    IF S = {} THEN {<<>>}
    ELSE UNION {{<<k>> \o rest : rest \in Orders(S \ {k})} : k \in S}

Init ==
    \E ping_ok \in BOOLEAN :
        /\ probe = ping_ok
        /\ cache_available = __init__(ping_ok).cache_available
        /\ memory_cache = __init__(ping_ok).memory_cache
        /\ cache_stats = __init__(ping_ok).cache_stats
        /\ redis_strings = EmptyDict
        /\ redis_hashes = EmptyDict
        /\ now = 0
        /\ puts = [r \in PutRequests |-> None]
        /\ put_calls = 0
        /\ gets = [calls |-> 0, hits |-> 0]
        /\ last = [op |-> "__init__", args |-> None,
                   raised |-> __init__(ping_ok).raised, ret |-> None]
        /\ pc = [t \in Threads |-> "idle"]
        /\ frame = [t \in Threads |-> IdleFrame]
        /\ analyzer = NoAnalyzer

\* A call of get_cached_response; keys is the answer of KEYS, in any order.
GetCachedResponse ==
    /\ last.op = "none"
    /\ cache_stats.total_requests < MaxGets
    /\ \E request \in GetRequests, threshold \in Thresholds,
          failure \in (IF cache_available THEN GetFailures ELSE {"none"}) :
         \E keys \in Orders(redis_keys(Pattern(request.model_id))) :
           \E out \in {get_cached_response(request.model_id, request.messages,
                                           request.max_tokens, threshold, keys,
                                           failure)} :
              /\ cache_stats' = out.cache_stats
              /\ memory_cache' = out.memory_cache
              /\ gets' = [calls |-> gets.calls + 1,
                          hits |-> gets.hits + (IF out.ret # None THEN 1 ELSE 0)]
              /\ last' = [op |-> "get",
                          args |-> Some([request |-> request, threshold |-> threshold,
                                         keys |-> keys, failure |-> failure]),
                          raised |-> out.raised, ret |-> out.ret]
    /\ UNCHANGED <<cache_available, redis_strings, redis_hashes, now, probe,
                   puts, put_calls, pc, frame, analyzer>>

\* Whether the backend takes the write of an entry: Redis rejects a ttl that
\* is not positive, the dict takes every write.
Written(ttl, failure) == IF probe THEN failure # "setex" /\ ttl > 0 ELSE TRUE

\* A call of cache_response.
CacheResponse ==
    /\ last.op = "none"
    /\ put_calls < MaxPuts
    /\ \E request \in PutRequests, response \in Responses, ttl \in TTLs,
          failure \in (IF cache_available THEN PutFailures ELSE {"none"}) :
         \E out \in {cache_response(request.model_id, request.messages, response,
                                    request.max_tokens, ttl, failure)} :
            /\ cache_available' = out.cache_available
            /\ redis_strings' = out.redis_strings
            /\ redis_hashes' = out.redis_hashes
            /\ memory_cache' = out.memory_cache
            /\ puts' = [puts EXCEPT ![request] =
                            IF Written(ttl, failure)
                            THEN Some([response |-> response, ttl |-> ttl, at |-> now])
                            ELSE None]
            /\ last' = [op |-> "put",
                        args |-> Some([request |-> request, response |-> response,
                                       ttl |-> ttl, failure |-> failure]),
                        raised |-> out.raised, ret |-> None]
    /\ put_calls' = put_calls + 1
    /\ UNCHANGED <<cache_stats, now, probe, gets, pc, frame, analyzer>>

\* A call of get_cache_stats.
GetCacheStats ==
    /\ last.op = "none"
    /\ last' = [op |-> "stats", args |-> None, raised |-> FALSE,
                ret |-> Some(get_cache_stats)]
    /\ UNCHANGED <<cache_available, memory_cache, cache_stats, redis_strings,
                   redis_hashes, now, probe, puts, put_calls, gets, pc, frame, analyzer>>

\* The caller takes the result of the call.
Return ==
    /\ last.op # "none"
    /\ last' = NoCall
    /\ UNCHANGED <<cache_available, memory_cache, cache_stats, redis_strings,
                   redis_hashes, now, probe, puts, put_calls, gets, pc, frame, analyzer>>

\* A second passes between two calls; Redis drops the keys whose ttl ran out.
Tick ==
    /\ last.op = "none"
    /\ now < MaxTime
    /\ now' = now + 1
    /\ redis_strings' = Unexpired(redis_strings, now + 1)
    /\ redis_hashes' = UnexpiredHashes(redis_hashes, now + 1)
    /\ UNCHANGED <<cache_available, memory_cache, cache_stats, probe, puts,
                   put_calls, gets, last, pc, frame, analyzer>>

Next ==
    \/ GetCachedResponse
    \/ CacheResponse
    \/ GetCacheStats
    \/ Return
    \/ Tick

Spec == Init /\ [][Next]_vars

----------------------------------------------------------------------------
(* Calls in threads.  SmartCache takes no lock, so when its methods are      *)
(* called from several threads their statements interleave: each Redis       *)
(* command and each load or store of a counter (the two halves of            *)
(* cache_stats[...] += 1) is one step, and a second may pass, and Redis      *)
(* keys expire, between any two steps.                                        *)

MaxThreadPuts == 2
MaxThreadGets == 2

\* The requests, the threshold and the write failures of the calls in threads.
ThreadPutRequests == {BaseRequest, Request("a:b", <<User("abd")>>, "None")}
ThreadGetRequests == {BaseRequest, Request("a", <<User("abc")>>, "150")}
ThreadThresholds == {50}
ThreadPutFailures == {"none", "setex"}
ThreadTTLs == {1}
ThreadResponses == {"R1"}

\* The threads that call cache_response; every thread calls
\* get_cached_response.
Writers == {1}

\* Thread t goes to the statement at label with the frame f.
Goto(t, label, f) ==
    /\ pc' = [pc EXCEPT ![t] = label]
    /\ frame' = [frame EXCEPT ![t] = f]

\* The get_cached_response calls that threads are in.
GetsInProgress == Cardinality({t \in Threads : frame[t].op = "get"})

\* get_cached_response is called (line 57); line 62 is next.
GetStart ==
    \E t \in Threads :
        /\ pc[t] = "idle"
        /\ last.op = "none"
        /\ gets.calls + GetsInProgress < MaxThreadGets
        /\ \E request \in ThreadGetRequests, threshold \in ThreadThresholds :
             Goto(t, "load", [IdleFrame EXCEPT !.op = "get", !.request = Some(request),
                                               !.threshold = threshold,
                                               !.counter = "total_requests"])
        /\ UNCHANGED <<cache_available, memory_cache, cache_stats, redis_strings,
                       redis_hashes, now, probe, puts, put_calls, gets, last, analyzer>>

\* cache_stats[counter] += 1, first half: the value is loaded.
LoadCounter ==
    \E t \in Threads :
        /\ pc[t] = "load"
        /\ Goto(t, "store", [frame[t] EXCEPT !.tmp = cache_stats[frame[t].counter]])
        /\ UNCHANGED <<cache_available, memory_cache, cache_stats, redis_strings,
                       redis_hashes, now, probe, puts, put_calls, gets, last, analyzer>>

\* cache_stats[counter] += 1, second half: the value loaded, plus one, is
\* stored.  After total_requests the exact lookup is next; after hits and
\* misses the method returns, and on the fallback an exact hit has tagged the
\* dict that is in memory_cache (line 70).
StoreCounter ==
    \E t \in Threads :
        /\ pc[t] = "store"
        /\ LET f == frame[t]
               exact_key == KeyOfRequest(f.request[1])
           IN  /\ cache_stats' = [cache_stats EXCEPT ![f.counter] = f.tmp + 1]
               /\ Goto(t, IF f.counter = "total_requests" THEN "exact" ELSE "done", f)
               /\ memory_cache' =
                     IF /\ f.counter = "hits" /\ ~cache_available
                        /\ exact_key \in DOMAIN memory_cache
                        /\ Some(Tagged(memory_cache[exact_key], "exact_match")) = f.ret
                     THEN DictSet(memory_cache, exact_key, f.ret[1])
                     ELSE memory_cache
        /\ UNCHANGED <<cache_available, redis_strings, redis_hashes, now, probe,
                       puts, put_calls, gets, last, analyzer>>

\* Lines 65-81: the exact lookup; on a miss, the user text is selected and
\* the semantic lookup is next if there is one.
GetExact ==
    \E t \in Threads :
        /\ pc[t] = "exact"
        /\ LET f == frame[t]
               request == f.request[1]
               cached == _get_from_cache(KeyOfRequest(request), FALSE)
               user_message == LastUserMessage(request.messages)
           IN  IF cached.value # None
               THEN Goto(t, "load", [f EXCEPT !.counter = "hits",
                                              !.ret = Some(Tagged(cached.value[1],
                                                                  "exact_match"))])
               ELSE IF request.messages # <<>> /\ Truthy(user_message)
               THEN Goto(t, "keys", f)
               ELSE Goto(t, "load", [f EXCEPT !.counter = "misses"])
        /\ UNCHANGED <<cache_available, memory_cache, cache_stats, redis_strings,
                       redis_hashes, now, probe, puts, put_calls, gets, last, analyzer>>

\* The end of the loop when a selected record without an entry is answered
\* with an entry that has no content yet.
AfterScan_returning_placeholder(f) ==
    IF f.best_match # None
    THEN [f EXCEPT !.counter = "hits",
                   !.ret = Some(Tagged(f.best_match[1], "semantic_match"))]
    ELSE IF f.dangling
    THEN [f EXCEPT !.counter = "hits",
                   !.ret = Some(Tagged(CacheEntry("", 0, "", 0), "semantic_match"))]
    ELSE [f EXCEPT !.counter = "misses", !.ret = None]

\* The end of the loop of _find_similar_cached_response and lines 85-91: the
\* counter to add to and the value to return.
AfterScan(f) ==
    IF f.best_match # None
    THEN [f EXCEPT !.counter = "hits",
                   !.ret = Some(Tagged(f.best_match[1], "semantic_match"))]
    ELSE [f EXCEPT !.counter = "misses", !.ret = None]

\* The loop goes on to the next key, or ends.
NextKey(t, f) ==
    IF f.i + 1 > Len(f.keys)
    THEN Goto(t, "load", AfterScan([f EXCEPT !.i = f.i + 1]))
    ELSE Goto(t, "hget_message", [f EXCEPT !.i = f.i + 1])

\* Lines 95-104: KEYS, answered in any order, of which keys[:20] are scanned.
GetKeys ==
    \E t \in Threads :
        /\ pc[t] = "keys"
        /\ IF ~cache_available
           THEN Goto(t, "load", [frame[t] EXCEPT !.counter = "misses"])
           ELSE \E keys \in Orders(redis_keys(Pattern(frame[t].request[1].model_id))) :
                   NextKey(t, [frame[t] EXCEPT
                                  !.keys = SubSeq(keys, 1, Min(ScanLimit, Len(keys))),
                                  !.i = 0])
        /\ UNCHANGED <<cache_available, memory_cache, cache_stats, redis_strings,
                       redis_hashes, now, probe, puts, put_calls, gets, last, analyzer>>

\* Lines 107-112: HGET key 'message' and the comparison of the similarity.
GetHgetMessage ==
    \E t \in Threads :
        /\ pc[t] = "hget_message"
        /\ LET f == frame[t]
               cached_message == redis_hget(f.keys[f.i], "message", FALSE)
               similarity ==
                   Ratio(Lower(Chars(LastUserMessage(f.request[1].messages)[1])),
                         Lower(Chars(cached_message.value[1])))
           IN  IF cached_message.value = None \/ cached_message.value[1] = ""
               THEN NextKey(t, f)
               ELSE IF Greater(similarity, f.best_similarity)
                       /\ AtLeast(similarity, f.threshold)
               THEN Goto(t, "hget_response_key",
                         [f EXCEPT !.best_similarity = similarity,
                                   !.similarity = similarity])
               ELSE NextKey(t, f)
        /\ UNCHANGED <<cache_available, memory_cache, cache_stats, redis_strings,
                       redis_hashes, now, probe, puts, put_calls, gets, last, analyzer>>

\* Lines 113-114: HGET key 'response_key'.
GetHgetResponseKey ==
    \E t \in Threads :
        /\ pc[t] = "hget_response_key"
        /\ LET f == frame[t]
               response_key == redis_hget(f.keys[f.i], "response_key", FALSE)
           IN  IF response_key.value = None
               THEN NextKey(t, f)
               ELSE Goto(t, "deref", [f EXCEPT !.response_key = response_key.value])
        /\ UNCHANGED <<cache_available, memory_cache, cache_stats, redis_strings,
                       redis_hashes, now, probe, puts, put_calls, gets, last, analyzer>>

\* Line 115: best_match = self._get_from_cache(response_key); match_similarity
\* is the similarity of the record that best_match was read through and
\* dangling is whether the record referred to no entry.
GetDeref ==
    \E t \in Threads :
        /\ pc[t] = "deref"
        /\ LET f == frame[t]
               response == _get_from_cache(f.response_key[1], FALSE)
           IN  NextKey(t, [f EXCEPT !.best_match = response.value,
                                    !.match_similarity = f.similarity,
                                    !.dangling = (response.value = None),
                                    !.response_key = None])
        /\ UNCHANGED <<cache_available, memory_cache, cache_stats, redis_strings,
                       redis_hashes, now, probe, puts, put_calls, gets, last, analyzer>>

\* cache_response is called (lines 121-133); the write of the entry is next.
PutStart ==
    \E t \in Writers :
        /\ pc[t] = "idle"
        /\ last.op = "none"
        /\ put_calls < MaxThreadPuts
        /\ \E request \in ThreadPutRequests, response \in ThreadResponses,
              ttl \in ThreadTTLs, failure \in ThreadPutFailures :
             Goto(t, "store_entry",
                  [IdleFrame EXCEPT !.op = "put", !.request = Some(request),
                                    !.response = response, !.ttl = ttl,
                                    !.failure = IF cache_available THEN failure
                                                ELSE "none",
                                    !.tmp = now])
        /\ put_calls' = put_calls + 1
        /\ UNCHANGED <<cache_available, memory_cache, cache_stats, redis_strings,
                       redis_hashes, now, probe, puts, gets, last, analyzer>>

\* Lines 135-144: _store_in_cache; the semantic record is next when there is
\* a user text and Redis.
PutStoreEntry ==
    \E t \in Threads :
        /\ pc[t] = "store_entry"
        /\ LET f == frame[t]
               request == f.request[1]
               cache_entry == CacheEntry(f.response, f.tmp, request.model_id, f.ttl)
               stored == _store_in_cache(KeyOfRequest(request), cache_entry, f.ttl,
                                         f.failure = "setex")
           IN  /\ redis_strings' = stored.redis_strings
               /\ memory_cache' = stored.memory_cache
               /\ Goto(t, IF Truthy(LastUserMessage(request.messages)) /\ cache_available
                          THEN "hset" ELSE "done", f)
        /\ UNCHANGED <<cache_available, cache_stats, redis_hashes, now, probe, puts,
                       put_calls, gets, last, analyzer>>

\* Lines 153-158: HSET of the semantic record.
PutHset ==
    \E t \in Threads :
        /\ pc[t] = "hset"
        /\ LET f == frame[t]
               request == f.request[1]
               user_message == LastUserMessage(request.messages)[1]
               set == redis_hset(SemanticKey(request.model_id, user_message),
                                 user_message, KeyOfRequest(request), now, FALSE)
           IN  /\ redis_hashes' = set.hashes
               /\ Goto(t, "expire", f)
        /\ UNCHANGED <<cache_available, memory_cache, cache_stats, redis_strings,
                       now, probe, puts, put_calls, gets, last, analyzer>>

\* Line 159: EXPIRE of the semantic record.
PutExpire ==
    \E t \in Threads :
        /\ pc[t] = "expire"
        /\ LET f == frame[t]
               request == f.request[1]
               semantic_key == SemanticKey(request.model_id,
                                           LastUserMessage(request.messages)[1])
           IN  /\ redis_hashes' = redis_expire(redis_hashes, semantic_key, f.ttl,
                                               FALSE).hashes
               /\ Goto(t, "done", f)
        /\ UNCHANGED <<cache_available, memory_cache, cache_stats, redis_strings,
                       now, probe, puts, put_calls, gets, last, analyzer>>

\* The call of a thread returns to its caller.
ThreadReturn ==
    \E t \in Threads :
        /\ pc[t] = "done"
        /\ Goto(t, "idle", IdleFrame)
        /\ gets' = IF frame[t].op = "get"
                   THEN [calls |-> gets.calls + 1,
                         hits |-> gets.hits + (IF frame[t].ret # None THEN 1 ELSE 0)]
                   ELSE gets
        /\ UNCHANGED <<cache_available, memory_cache, cache_stats, redis_strings,
                       redis_hashes, now, probe, puts, put_calls, last, analyzer>>

\* A second passes between two steps; Redis drops the keys whose ttl ran out.
ThreadTick ==
    /\ now < MaxTime
    /\ now' = now + 1
    /\ redis_strings' = Unexpired(redis_strings, now + 1)
    /\ redis_hashes' = UnexpiredHashes(redis_hashes, now + 1)
    /\ UNCHANGED <<cache_available, memory_cache, cache_stats, probe, puts,
                   put_calls, gets, last, pc, frame, analyzer>>

ThreadInit ==
    \E ping_ok \in BOOLEAN :
        /\ probe = ping_ok
        /\ cache_available = __init__(ping_ok).cache_available
        /\ memory_cache = __init__(ping_ok).memory_cache
        /\ cache_stats = __init__(ping_ok).cache_stats
        /\ redis_strings = EmptyDict
        /\ redis_hashes = EmptyDict
        /\ now = 0
        /\ puts = [r \in PutRequests |-> None]
        /\ put_calls = 0
        /\ gets = [calls |-> 0, hits |-> 0]
        /\ last = NoCall
        /\ pc = [t \in Threads |-> "idle"]
        /\ frame = [t \in Threads |-> IdleFrame]
        /\ analyzer = NoAnalyzer

ThreadNext ==
    \/ GetStart
    \/ LoadCounter
    \/ StoreCounter
    \/ GetExact
    \/ GetKeys
    \/ GetHgetMessage
    \/ GetHgetResponseKey
    \/ GetDeref
    \/ PutStart
    \/ PutStoreEntry
    \/ PutHset
    \/ PutExpire
    \/ ThreadReturn
    \/ ThreadTick

ThreadSpec == ThreadInit /\ [][ThreadNext]_vars

----------------------------------------------------------------------------
(* Calls with message lists of every shape: several user messages, none,    *)
(* a user message whose content is empty or missing, an empty list.          *)

MaxMessagePuts == 2
MaxMessageGets == 2

\* {'role': 'user'}: a user message without the key 'content'.
UserWithoutContent == <<<<"role", "user">>>>

\* The message lists of the calls; the model is the base request's and
\* max_tokens is None.
MessageLists ==
    { <<User("abc")>>,
      <<User("abd"), User("abc")>>,
      <<User("abc"), User("abd")>>,
      <<User("abc"), Assistant("abd")>>,
      <<User("abc"), User("")>>,
      <<Assistant("abc")>>,
      <<User("")>>,
      <<UserWithoutContent>>,
      <<>> }

MessageRequests == {Request("a", messages, "None") : messages \in MessageLists}

\* The response, the ttl and the thresholds of these calls.
MessageResponses == {"R1"}
MessageTTLs == {1}
MessageThresholds == {50, 85}

\* A call of cache_response on one of the message lists.
MessagesPut ==
    /\ last.op = "none"
    /\ put_calls < MaxMessagePuts
    /\ \E request \in MessageRequests, response \in MessageResponses,
          ttl \in MessageTTLs :
         \E out \in {cache_response(request.model_id, request.messages, response,
                                    request.max_tokens, ttl, "none")} :
            /\ cache_available' = out.cache_available
            /\ redis_strings' = out.redis_strings
            /\ redis_hashes' = out.redis_hashes
            /\ memory_cache' = out.memory_cache
            /\ last' = [op |-> "put",
                        args |-> Some([request |-> request, response |-> response,
                                       ttl |-> ttl, failure |-> "none"]),
                        raised |-> out.raised, ret |-> None]
    /\ put_calls' = put_calls + 1
    /\ UNCHANGED <<cache_stats, now, probe, puts, gets, pc, frame, analyzer>>

\* A call of get_cached_response on one of the message lists.
MessagesGet ==
    /\ last.op = "none"
    /\ cache_stats.total_requests < MaxMessageGets
    /\ \E request \in MessageRequests, threshold \in MessageThresholds :
         \E keys \in Orders(redis_keys(Pattern(request.model_id))) :
           \E out \in {get_cached_response(request.model_id, request.messages,
                                           request.max_tokens, threshold, keys,
                                           "none")} :
              /\ cache_stats' = out.cache_stats
              /\ memory_cache' = out.memory_cache
              /\ gets' = [calls |-> gets.calls + 1,
                          hits |-> gets.hits + (IF out.ret # None THEN 1 ELSE 0)]
              /\ last' = [op |-> "get",
                          args |-> Some([request |-> request, threshold |-> threshold,
                                         keys |-> keys, failure |-> "none"]),
                          raised |-> out.raised, ret |-> out.ret]
    /\ UNCHANGED <<cache_available, redis_strings, redis_hashes, now, probe,
                   puts, put_calls, pc, frame, analyzer>>

MessagesNext ==
    \/ MessagesPut
    \/ MessagesGet
    \/ Return

MessagesSpec == Init /\ [][MessagesNext]_vars

----------------------------------------------------------------------------
(* A caller that fills the index of one model with more records than a      *)
(* lookup scans, and looks up in between.                                    *)

MaxScanPuts == 21
MaxScanGets == 2

\* The user text of the caller's i-th cache_response: 'abc', 'abd', and from
\* the third on the numeral of i, which shares no character with the two.
ScanText(i) == IF i = 1 THEN "abc" ELSE IF i = 2 THEN "abd" ELSE ToString(i)

\* The request and the response of the i-th cache_response; the response
\* names the call.
ScanRequest(i) == Request("a", <<User(ScanText(i))>>, "None")
ScanResponse(i) == ToString(i)

\* ttl=3600, the default of cache_response.
ScanTTL == 3600

\* The requests looked up: the first one cached, and the same with another
\* max_tokens, whose exact key no cache_response wrote.
ScanGetRequests == {ScanRequest(1), Request("a", <<User("abc")>>, "150")}
ScanThresholds == {50, 85}

\* The orders in which KEYS answers with the set S of keys: the order the
\* records were written in, started at any of them.
Rotations(S) ==
    LET written == SelectSeq([i \in 1..MaxScanPuts |->
                                 SemanticKey("a", ScanText(i))],
                             LAMBDA k : k \in S)
        n == Len(written)
    IN  IF n = 0 THEN {<<>>}
        ELSE {[i \in 1..n |-> written[((i + k - 1) % n) + 1]] : k \in 0..(n - 1)}

\* The caller's next cache_response.
ScanPut ==
    /\ last.op = "none"
    /\ put_calls < MaxScanPuts
    /\ LET request == ScanRequest(put_calls + 1)
           response == ScanResponse(put_calls + 1)
       IN  \E out \in {cache_response(request.model_id, request.messages, response,
                                      request.max_tokens, ScanTTL, "none")} :
              /\ cache_available' = out.cache_available
              /\ redis_strings' = out.redis_strings
              /\ redis_hashes' = out.redis_hashes
              /\ memory_cache' = out.memory_cache
              /\ last' = [op |-> "put",
                          args |-> Some([request |-> request, response |-> response,
                                         ttl |-> ScanTTL, failure |-> "none"]),
                          raised |-> out.raised, ret |-> None]
    /\ put_calls' = put_calls + 1
    /\ UNCHANGED <<cache_stats, now, probe, puts, gets, pc, frame, analyzer>>

\* A call of get_cached_response; keys is the answer of KEYS.
ScanGet ==
    /\ last.op = "none"
    /\ cache_stats.total_requests < MaxScanGets
    /\ \E request \in ScanGetRequests, threshold \in ScanThresholds :
         \E keys \in Rotations(redis_keys(Pattern(request.model_id))) :
           \E out \in {get_cached_response(request.model_id, request.messages,
                                           request.max_tokens, threshold, keys,
                                           "none")} :
              /\ cache_stats' = out.cache_stats
              /\ memory_cache' = out.memory_cache
              /\ gets' = [calls |-> gets.calls + 1,
                          hits |-> gets.hits + (IF out.ret # None THEN 1 ELSE 0)]
              /\ last' = [op |-> "get",
                          args |-> Some([request |-> request, threshold |-> threshold,
                                         keys |-> keys, failure |-> "none"]),
                          raised |-> out.raised, ret |-> out.ret]
    /\ UNCHANGED <<cache_available, redis_strings, redis_hashes, now, probe,
                   puts, put_calls, pc, frame, analyzer>>

ScanNext ==
    \/ ScanPut
    \/ ScanGet
    \/ Return

ScanSpec == Init /\ [][ScanNext]_vars

----------------------------------------------------------------------------
(* A Redis that another client writes to: the string under a key of the      *)
(* cache can be a text that cache_response never wrote.                        *)

MaxPayloadPuts == 2
MaxPayloadGets == 2
MaxForeignWrites == 2

\* The requests of the calls: the base request and the same with another
\* max_tokens.
PayloadRequests == {BaseRequest, Request("a", <<User("abc")>>, "150")}
PayloadThresholds == {50}
PayloadResponses == {"R1"}

\* The texts the other client writes: the start of the serialization of an
\* entry, cut off after the key 'response', and the JSON object {"x": "1"},
\* which holds no key of an entry.
Truncated == << <<"response">> >>
ForeignObject == << <<"x", "1">> >>
ForeignPayloads == {Truncated, ForeignObject}

\* A call of cache_response.
PayloadPut ==
    /\ last.op = "none"
    /\ put_calls < MaxPayloadPuts
    /\ \E request \in PayloadRequests, response \in PayloadResponses :
         \E out \in {cache_response(request.model_id, request.messages, response,
                                    request.max_tokens, ScanTTL, "none")} :
            /\ cache_available' = out.cache_available
            /\ redis_strings' = out.redis_strings
            /\ redis_hashes' = out.redis_hashes
            /\ memory_cache' = out.memory_cache
            /\ last' = [op |-> "put",
                        args |-> Some([request |-> request, response |-> response,
                                       ttl |-> ScanTTL, failure |-> "none"]),
                        raised |-> out.raised, ret |-> None]
    /\ put_calls' = put_calls + 1
    /\ UNCHANGED <<cache_stats, now, probe, puts, gets, pc, frame, analyzer>>

\* The other client sets the string under the exact key of a request.
ForeignWrite ==
    /\ last.op = "none"
    /\ cache_available
    /\ Cardinality({k \in DOMAIN redis_strings :
                       redis_strings[k].value \in ForeignPayloads}) < MaxForeignWrites
    /\ \E request \in PayloadRequests, payload \in ForeignPayloads :
          redis_strings' = DictSet(redis_strings, KeyOfRequest(request),
                                   [value |-> payload, exp |-> now + ScanTTL])
    /\ UNCHANGED <<cache_available, memory_cache, cache_stats, redis_hashes, now,
                   probe, puts, put_calls, gets, last, pc, frame, analyzer>>

\* A call of get_cached_response.
PayloadGet ==
    /\ last.op = "none"
    /\ cache_stats.total_requests < MaxPayloadGets
    /\ \E request \in PayloadRequests, threshold \in PayloadThresholds :
         \E keys \in Orders(redis_keys(Pattern(request.model_id))) :
           \E out \in {get_cached_response(request.model_id, request.messages,
                                           request.max_tokens, threshold, keys,
                                           "none")} :
              /\ cache_stats' = out.cache_stats
              /\ memory_cache' = out.memory_cache
              /\ gets' = [calls |-> gets.calls + 1,
                          hits |-> gets.hits + (IF out.ret # None THEN 1 ELSE 0)]
              /\ last' = [op |-> "get",
                          args |-> Some([request |-> request, threshold |-> threshold,
                                         keys |-> keys, failure |-> "none"]),
                          raised |-> out.raised, ret |-> out.ret]
    /\ UNCHANGED <<cache_available, redis_strings, redis_hashes, now, probe,
                   puts, put_calls, pc, frame, analyzer>>

PayloadNext ==
    \/ PayloadPut
    \/ ForeignWrite
    \/ PayloadGet
    \/ Return

PayloadSpec == Init /\ [][PayloadNext]_vars

----------------------------------------------------------------------------
(* SmartCacheAnalyzer.analyze_caching_scenario: a loop over the queries that *)
(* looks each one up and, on a miss, calls the inference service and caches  *)
(* the answer.                                                                *)

MaxQueries == 3
MaxAnalyzerTime == 3600

\* The texts of the queries and the model_id of the run.
AnalyzerTexts == {"abc", "Abc", "abd"}
AnalyzerModel == "a"

\* The results the inference service answers with, and the 'usage' of each:
\* 'R1' reports its tokens, 'R2' has no key 'usage'.
AnalyzerResponses == {"R1", "R2"}
Usage(result) ==
    IF result = "R1" THEN Some([input_tokens |-> 10, output_tokens |-> 20]) ELSE None

\* The Redis command that fails in the lookup and in the store of a query.
AnalyzerGetFailures == {"none", "get_exact"}
AnalyzerPutFailures == {"none", "setex"}

\* similarity_threshold=0.85, the default of get_cached_response.
DefaultThreshold == 85

\* 'haiku' in model_id
HasHaiku(model_id) ==
    LET cs == Chars(model_id)
    IN  \E i \in 1..(Len(cs) - 4) : SubSeq(cs, i, i + 4) = <<"h", "a", "i", "k", "u">>

\* SmartCacheAnalyzer._calculate_cost, in units of 0.0000001 dollars: the
\* prices per 1000 tokens are 0.0008 and 0.0024 (haiku), 0.003 and 0.015
\* (sonnet).
_calculate_cost(model_id, input_tokens, output_tokens) ==
    LET pricing == IF HasHaiku(model_id) THEN [input |-> 8, output |-> 24]
                   ELSE [input |-> 30, output |-> 150]
    IN  input_tokens * pricing.input + output_tokens * pricing.output

\* _make_api_call that answers a failed call with an error body.
_make_api_call_returning_error_body(model_id, invoked) ==
    IF invoked = None THEN [response_data |-> Some("error"), cost |-> 0]
    ELSE [response_data |-> invoked, cost |-> 0]

\* SmartCacheAnalyzer._make_api_call; invoked is the result of
\* bedrock.invoke_model, None when it raised.
_make_api_call(model_id, invoked) ==
    IF invoked = None THEN [response_data |-> None, cost |-> 0]      \* except: return None, 0
    ELSE LET usage == Usage(invoked[1])
         IN  [response_data |-> invoked,
              cost |-> IF usage = None THEN _calculate_cost(model_id, 0, 0)
                       ELSE _calculate_cost(model_id, usage[1].input_tokens,
                                            usage[1].output_tokens)]

\* What the run has done for one query (history).
LogEntry(query, time, hit, read_failed, called, succeeded, cached, written) ==
    [query |-> query, time |-> time, hit |-> hit, read_failed |-> read_failed,
     called |-> called, succeeded |-> succeeded, cached |-> cached,
     written |-> written]

AnalyzerInit ==
    \E ping_ok \in BOOLEAN, queries \in [1..MaxQueries -> AnalyzerTexts] :
        /\ probe = ping_ok
        /\ cache_available = __init__(ping_ok).cache_available
        /\ memory_cache = __init__(ping_ok).memory_cache
        /\ cache_stats = __init__(ping_ok).cache_stats
        /\ redis_strings = EmptyDict
        /\ redis_hashes = EmptyDict
        /\ now = 0
        /\ puts = [r \in PutRequests |-> None]
        /\ put_calls = 0
        /\ gets = [calls |-> 0, hits |-> 0]
        /\ last = NoCall
        /\ pc = [t \in Threads |-> "idle"]
        /\ frame = [t \in Threads |-> IdleFrame]
        /\ analyzer = [NoAnalyzer EXCEPT !.queries = queries, !.i = 1, !.at = "get"]

\* Lines 222-250: the lookup of the next query and, on a hit, the savings.
AnalyzerGet ==
    /\ analyzer.at = "get"
    /\ analyzer.i <= Len(analyzer.queries)
    /\ LET query == analyzer.queries[analyzer.i]
           messages == <<User(query)>>
       IN  \E failure \in (IF cache_available THEN AnalyzerGetFailures ELSE {"none"}) :
             \E keys \in Orders(redis_keys(Pattern(AnalyzerModel))) :
               \E out \in {get_cached_response(AnalyzerModel, messages, "None",
                                               DefaultThreshold, keys, failure)} :
                  /\ memory_cache' = out.memory_cache
                  /\ gets' = [calls |-> gets.calls + 1,
                              hits |-> gets.hits + (IF out.ret # None THEN 1 ELSE 0)]
                  /\ IF out.ret # None
                     THEN LET usage == Usage(out.ret[1].response)
                              estimated_cost ==
                                  _calculate_cost(AnalyzerModel, usage[1].input_tokens,
                                                  usage[1].output_tokens)
                          IN  /\ cache_stats' =
                                    IF usage # None
                                    THEN [out.cache_stats EXCEPT
                                             !.cost_savings = @ + estimated_cost]
                                    ELSE out.cache_stats
                              /\ analyzer' =
                                    [analyzer EXCEPT
                                        !.i = @ + 1,
                                        !.log = Append(@, LogEntry(query, now, TRUE,
                                                                   failure = "get_exact",
                                                                   FALSE, FALSE, FALSE,
                                                                   FALSE))]
                     ELSE /\ cache_stats' = out.cache_stats
                          /\ analyzer' = [analyzer EXCEPT
                                             !.at = "call",
                                             !.read_failed = (failure = "get_exact")]
    /\ UNCHANGED <<cache_available, redis_strings, redis_hashes, now, probe, puts,
                   put_calls, last, pc, frame>>

\* Lines 252-268: the call of the inference service and, when it answered,
\* the cache_response of the answer (max_tokens and ttl by their defaults).
AnalyzerCall ==
    /\ analyzer.at = "call"
    /\ LET query == analyzer.queries[analyzer.i]
           messages == <<User(query)>>
       IN  \E invoked \in {None} \cup {Some(r) : r \in AnalyzerResponses},
              failure \in (IF cache_available THEN AnalyzerPutFailures ELSE {"none"}) :
             \E api \in {_make_api_call(AnalyzerModel, invoked)} :
               IF api.response_data # None
               THEN \E out \in {cache_response(AnalyzerModel, messages,
                                               api.response_data[1], "None", ScanTTL,
                                               failure)} :
                      /\ cache_available' = out.cache_available
                      /\ redis_strings' = out.redis_strings
                      /\ redis_hashes' = out.redis_hashes
                      /\ memory_cache' = out.memory_cache
                      /\ put_calls' = put_calls + 1
                      /\ analyzer' =
                            [analyzer EXCEPT
                                !.i = @ + 1, !.at = "get", !.read_failed = FALSE,
                                !.log = Append(@, LogEntry(query, now, FALSE,
                                                           analyzer.read_failed, TRUE,
                                                           invoked # None, TRUE,
                                                           failure # "setex"))]
               ELSE /\ failure = "none"
                    /\ UNCHANGED <<cache_available, redis_strings, redis_hashes,
                                   memory_cache, put_calls>>
                    /\ analyzer' =
                          [analyzer EXCEPT
                              !.i = @ + 1, !.at = "get", !.read_failed = FALSE,
                              !.log = Append(@, LogEntry(query, now, FALSE,
                                                         analyzer.read_failed, TRUE,
                                                         invoked # None, FALSE, FALSE))]
    /\ UNCHANGED <<cache_stats, now, probe, puts, gets, last, pc, frame>>

\* Lines 272-287: after the last query, the statistics are read and printed.
AnalyzerStats ==
    /\ analyzer.at = "get"
    /\ analyzer.i > Len(analyzer.queries)
    /\ get_cache_stats.total_requests = Len(analyzer.queries)
    /\ analyzer' = [analyzer EXCEPT !.at = "end"]
    /\ UNCHANGED <<cache_available, memory_cache, cache_stats, redis_strings,
                   redis_hashes, now, probe, puts, put_calls, gets, last, pc, frame>>

\* The times at which the run looks a query up: its start, a second later,
\* and when the ttl of an entry written at either has run out.
AnalyzerTimes == {t \in {0, 1, ScanTTL, ScanTTL + 1} : t <= MaxAnalyzerTime}

\* Time passes between two queries; Redis drops the keys whose ttl ran out.
AnalyzerTick ==
    /\ analyzer.at = "get"
    /\ \E t \in AnalyzerTimes :
          /\ t > now
          /\ now' = t
          /\ redis_strings' = Unexpired(redis_strings, t)
          /\ redis_hashes' = UnexpiredHashes(redis_hashes, t)
    /\ UNCHANGED <<cache_available, memory_cache, cache_stats, probe, puts,
                   put_calls, gets, last, pc, frame, analyzer>>

AnalyzerNext ==
    \/ AnalyzerGet
    \/ AnalyzerCall
    \/ AnalyzerStats
    \/ AnalyzerTick

AnalyzerSpec == AnalyzerInit /\ [][AnalyzerNext]_vars

----------------------------------------------------------------------------
(* Properties *)

\* The arguments and the result of the get_cached_response that has returned.
GetReturned == last.op = "get"
GetArgs == last.args[1]
PutReturned == last.op = "put"
PutArgs == last.args[1]

\* The entry cache_response wrote for request r is still within its ttl.
WithinTtl(r) == puts[r] # None /\ now < puts[r][1].at + puts[r][1].ttl

\* C1: after cache_response has stored R under a request (the backend took
\* the write, no later cache_response on the same request, the ttl not yet
\* run out), a get_cached_response of the identical request whose exact read
\* the backend answers returns R tagged exact_match, on either backend and
\* whatever calls on other requests came in between.
C1_PutThenGetIsExactHit ==
    (/\ GetReturned
     /\ GetArgs.request \in PutRequests
     /\ GetArgs.failure # "get_exact")
    => \A r \in PutRequests :
           (r = GetArgs.request /\ WithinTtl(r))
           => /\ ~last.raised
              /\ last.ret # None
              /\ last.ret[1].response = puts[r][1].response
              /\ last.ret[1].cache_type = "exact_match"

\* C1's case: an exact hit on a stored request while another request is
\* stored too.
C1_Witness ==
    /\ GetReturned
    /\ GetArgs.request \in PutRequests
    /\ WithinTtl(GetArgs.request)
    /\ last.ret # None
    /\ last.ret[1].cache_type = "exact_match"
    /\ \E r \in PutRequests : r # GetArgs.request /\ puts[r] # None

\* The two requests differ in exactly one of model_id, messages, max_tokens.
OneFieldDiffers(r, g) ==
    Cardinality({f \in {"model_id", "messages", "max_tokens"} : r[f] # g[f]}) = 1

\* Request r is the only one whose cache_response wrote an entry.
OnlyPut(r) == puts[r] # None /\ \A r2 \in PutRequests \ {r} : puts[r2] = None

\* C2 as claimed: after cache_response(r, R), a get_cached_response whose
\* request differs from r in exactly one field does not return R.
C2_VariantDoesNotReturnR ==
    GetReturned
    => \A r \in PutRequests :
           (OnlyPut(r) /\ OneFieldDiffers(r, GetArgs.request))
           => ~(last.ret # None /\ last.ret[1].response = puts[r][1].response)

\* C2 as amended: a get_cached_response whose request differs in exactly one
\* field from a stored request, and under which nothing was cached itself,
\* never returns an entry tagged exact_match: it is a miss on the in-process
\* fallback, and on Redis it is a miss or a semantic match.
C2_VariantIsNeverExactHit ==
    (/\ GetReturned
     /\ GetArgs.request \notin PutRequests
     /\ \E r \in PutRequests : puts[r] # None /\ OneFieldDiffers(r, GetArgs.request))
    => \/ last.ret = None
       \/ cache_available /\ last.ret[1].cache_type = "semantic_match"

\* C2's case: a miss on a request one field away from a stored, live request.
C2_Witness ==
    /\ GetReturned
    /\ GetArgs.request \notin PutRequests
    /\ GetArgs.failure = "none"
    /\ \E r \in PutRequests : WithinTtl(r) /\ OneFieldDiffers(r, GetArgs.request)
    /\ last.ret = None

\* C3 as claimed: get_cached_response never returns an entry whose ttl is 0
\* or has run out, on either backend.
C3_ExpiredEntryIsNotReturned ==
    (GetReturned /\ last.ret # None)
    => now < last.ret[1].timestamp + last.ret[1].ttl

\* C4 as claimed: get_cached_response for one model never returns an entry
\* that cache_response stored for another model.
C4_NoCrossModelHit ==
    (GetReturned /\ last.ret # None)
    => last.ret[1].model_id = GetArgs.request.model_id

\* The backend holds the entry of request r and nothing else, and on Redis
\* the semantic record of r.
HoldsOnly(r) ==
    LET key == _generate_cache_key(r.model_id, r.messages, r.max_tokens)
        semantic_key == SemanticKey(r.model_id, LastUserMessage(r.messages)[1])
    IN  IF cache_available
        THEN DOMAIN redis_strings = {key} /\ DOMAIN redis_hashes = {semantic_key}
        ELSE DOMAIN memory_cache = {key}

\* The similarity of the user texts of two requests.
UserSimilarity(r, g) ==
    Ratio(Lower(Chars(LastUserMessage(g.messages)[1])),
          Lower(Chars(LastUserMessage(r.messages)[1])))

\* A second request of r's model with another exact key and a user text.
SemanticCase(r, g) ==
    /\ OnlyPut(r) /\ WithinTtl(r) /\ HoldsOnly(r)
    /\ g.model_id = r.model_id
    /\ _generate_cache_key(g.model_id, g.messages, g.max_tokens)
           # _generate_cache_key(r.model_id, r.messages, r.max_tokens)
    /\ Truthy(LastUserMessage(r.messages)) /\ Truthy(LastUserMessage(g.messages))

\* C5 as claimed: after cache_response(m, msgs1, R) on an otherwise empty
\* cache, a get_cached_response(m, msgs2, t) with another exact key returns R
\* tagged semantic_match when the similarity of the two user texts is >= t and
\* a miss when it is below, on either backend.
C5_SemanticHitIffSimilar ==
    (GetReturned /\ GetArgs.failure = "none")
    => \A r \in PutRequests :
           SemanticCase(r, GetArgs.request)
           => IF AtLeast(UserSimilarity(r, GetArgs.request), GetArgs.threshold)
              THEN /\ last.ret # None
                   /\ last.ret[1].response = puts[r][1].response
                   /\ last.ret[1].cache_type = "semantic_match"
              ELSE last.ret = None

\* The same property on the Redis backend alone, where the semantic index
\* exists.
C5_OnRedis == cache_available => C5_SemanticHitIffSimilar

\* Neither backend holds a key.
EmptyCache ==
    DOMAIN redis_strings = {} /\ DOMAIN redis_hashes = {} /\ DOMAIN memory_cache = {}

\* C6: a get_cached_response on an empty cache returns None and adds one to
\* misses and one to total_requests, hits unchanged, for every input and
\* whichever read fails.
C6_GetOnEmptyCacheIsOneMiss ==
    [][(last'.op = "get" /\ last.op = "none" /\ EmptyCache)
       => /\ ~last'.raised
          /\ last'.ret = None
          /\ cache_stats' = [cache_stats EXCEPT !.misses = @ + 1,
                                                !.total_requests = @ + 1]]_vars

\* C6's case: a get with an empty message list on an empty cache has returned.
C6_Witness ==
    /\ GetReturned
    /\ EmptyCache
    /\ GetArgs.request.messages = <<>>
    /\ last.ret = None
    /\ cache_stats.misses = 1

\* C7: when redis.ping() fails in __init__, the constructor and every later
\* call return without an exception, Redis is never written, and a
\* get_cached_response of a request that cache_response stored returns the
\* stored response from the dict.
C7_FallbackServesEveryCall ==
    ~probe
    => /\ ~cache_available
       /\ ~last.raised
       /\ redis_strings = EmptyDict /\ redis_hashes = EmptyDict
       /\ (GetReturned /\ GetArgs.request \in PutRequests)
          => \A r \in PutRequests :
                 (r = GetArgs.request /\ puts[r] # None)
                 => /\ last.ret # None
                    /\ last.ret[1].response = puts[r][1].response

\* C7's case: after a failed probe, a get returns a response that was put.
C7_Witness ==
    /\ ~probe
    /\ GetReturned
    /\ GetArgs.request \in PutRequests
    /\ puts[GetArgs.request] # None
    /\ last.ret # None

\* C8: the backend chosen in __init__ stays: cache_available is the outcome
\* of the probe in every state, get_cache_stats reports that backend, and an
\* instance on Redis never starts to use the dict, however many commands fail.
C8_BackendIsFixed ==
    /\ cache_available = probe
    /\ probe => memory_cache = EmptyDict
    /\ last.op = "stats"
       => last.ret[1].cache_backend = (IF probe THEN "redis" ELSE "memory")

\* C8's case: an instance on Redis after a command of its last write failed,
\* with every cache_response of the run made.
C8_Witness ==
    /\ probe
    /\ cache_available
    /\ PutReturned
    /\ PutArgs.failure # "none"
    /\ put_calls = MaxPuts

\* C9: a get_cached_response during which a Redis read fails (the exact read,
\* KEYS, HGET or the read of the referenced entry) raises nothing, returns
\* None unless the other lookup path hit, and counts one request and one hit
\* or one miss.
C9_FailedReadIsAMiss ==
    [][(last'.op = "get" /\ last.op = "none" /\ last'.args[1].failure # "none")
       => /\ ~last'.raised
          /\ cache_stats'.total_requests = cache_stats.total_requests + 1
          /\ IF last'.ret = None
             THEN /\ cache_stats'.misses = cache_stats.misses + 1
                  /\ cache_stats'.hits = cache_stats.hits
             ELSE /\ cache_stats'.hits = cache_stats.hits + 1
                  /\ cache_stats'.misses = cache_stats.misses
          /\ last'.args[1].failure = "get_exact"
             => (last'.ret = None \/ last'.ret[1].cache_type = "semantic_match")
          /\ last'.args[1].failure \in {"keys", "hget", "get_response"}
             => (last'.ret = None \/ last'.ret[1].cache_type = "exact_match")]_vars

\* C9's case: a semantic lookup over stored records whose read failed has
\* returned None and counted a miss.
C9_Witness ==
    /\ GetReturned
    /\ GetArgs.failure \in {"keys", "hget", "get_response"}
    /\ GetArgs.keys # <<>>
    /\ DOMAIN redis_strings # {}
    /\ last.ret = None
    /\ cache_stats.misses >= 1

----------------------------------------------------------------------------
(* The semantic lookup, stated on the records it scans *)

\* The keys a lookup scans out of the answer of KEYS.
Scanned(keys) == SubSeq(keys, 1, Min(ScanLimit, Len(keys)))

\* The similarity of a user text and the message of the record under key.
Score(user_text, key) ==
    Ratio(Lower(Chars(user_text)), Lower(Chars(redis_hashes[key].message)))

\* The positions of the scanned records that are candidates: a message that
\* is not empty and a similarity above 0 that meets the threshold.
Candidates(keys, user_text, threshold) ==
    {i \in 1..Len(Scanned(keys)) :
        /\ redis_hashes[keys[i]].message # ""
        /\ Greater(Score(user_text, keys[i]), [num |-> 0, den |-> 1])
        /\ AtLeast(Score(user_text, keys[i]), threshold)}

\* The positions of the selected record: the candidate of the strictly
\* greatest similarity, the first one scanned among equals (none or one).
Selected(keys, user_text, threshold) ==
    LET C == Candidates(keys, user_text, threshold)
    IN  {i \in C : \A j \in C :
            /\ ~Greater(Score(user_text, keys[j]), Score(user_text, keys[i]))
            /\ Greater(Score(user_text, keys[i]), Score(user_text, keys[j])) \/ i <= j}

\* The get_cached_response with arguments a finds no exact entry and goes on
\* to a semantic lookup, all of whose reads are answered.
SemanticLookup(a) ==
    /\ cache_available
    /\ a.failure = "none"
    /\ _generate_cache_key(a.request.model_id, a.request.messages,
                           a.request.max_tokens) \notin DOMAIN redis_strings
    /\ Truthy(LastUserMessage(a.request.messages))

\* The lookup with arguments a selects a record whose referenced entry is
\* not in the store.
SelectsDangling(a) ==
    /\ SemanticLookup(a)
    /\ \E i \in Selected(a.keys, LastUserMessage(a.request.messages)[1], a.threshold) :
           redis_hashes[a.keys[i]].response_key \notin DOMAIN redis_strings

\* C11: a get_cached_response whose semantic lookup selects a record whose
\* referenced entry is not in the store (expired or never written) raises
\* nothing, returns None although a candidate of a lower similarity may have a
\* live entry, and counts one request and one miss and no hit.
C11_DanglingReferenceIsAMiss ==
    [][(last'.op = "get" /\ last.op = "none" /\ SelectsDangling(last'.args[1]))
       => /\ ~last'.raised
          /\ last'.ret = None
          /\ cache_stats' = [cache_stats EXCEPT !.misses = @ + 1,
                                                !.total_requests = @ + 1]]_vars

\* C11's case: the selected record's entry was never written and a scanned
\* candidate of a lower similarity refers to a live entry; the get returned
\* None.
C11_Witness ==
    /\ GetReturned
    /\ SelectsDangling(GetArgs)
    /\ LET text == LastUserMessage(GetArgs.request.messages)[1]
       IN  \E i \in Selected(GetArgs.keys, text, GetArgs.threshold) :
             \E j \in Candidates(GetArgs.keys, text, GetArgs.threshold) :
                /\ Greater(Score(text, GetArgs.keys[i]), Score(text, GetArgs.keys[j]))
                /\ redis_hashes[GetArgs.keys[j]].response_key \in DOMAIN redis_strings
    /\ last.ret = None
    /\ cache_stats.misses >= 1

----------------------------------------------------------------------------
(* Calls on distinct fingerprints *)

\* The exact key of a request.
KeyOf(g) == _generate_cache_key(g.model_id, g.messages, g.max_tokens)

\* The response a result carries, None for a miss.
ResponseOf(ret) == IF ret = None THEN None ELSE Some(ret[1].response)

\* What the exact lookup of request g finds in this state.
ExactResult(g) == ResponseOf(_get_from_cache(KeyOf(g), FALSE).value)

\* C12 as claimed, for the first cache_response of a run: a
\* get_cached_response on any other fingerprint returns what it returned
\* before that cache_response was made, on the empty cache: a miss.
C12_PutLeavesOtherGetsAlone ==
    (/\ GetReturned
     /\ put_calls = 1
     /\ \A r \in PutRequests : KeyOf(r) # KeyOf(GetArgs.request))
    => last.ret = None

\* C12 as amended: a cache_response on one fingerprint leaves the exact
\* lookup of every other fingerprint as it was: the same miss or the same
\* response, on either backend.
C12_PutLeavesOtherExactLookupsAlone ==
    [][(last'.op = "put" /\ last.op = "none")
       => \A g \in GetRequests :
              KeyOf(g) # KeyOf(last'.args[1].request)
              => ExactResult(g)' = ExactResult(g)]_vars

\* C12's case: a cache_response has written its entry while the entry of
\* another request is in the store.
C12_Witness ==
    /\ PutReturned
    /\ ExactResult(PutArgs.request) = Some(PutArgs.response)
    /\ \E r \in PutRequests :
          /\ KeyOf(r) # KeyOf(PutArgs.request)
          /\ puts[r] # None
          /\ ExactResult(r) = Some(puts[r][1].response)

----------------------------------------------------------------------------
(* Statistics *)

\* The absolute value.
Abs(x) == IF x < 0 THEN -x ELSE x

\* C13: after N get_cached_response calls of which H returned an entry,
\* get_cache_stats reports total_requests = N, cache_hits = H and
\* cache_misses = N - H, and a hit_rate_percentage that is the multiple of 0.1
\* nearest to H / N * 100, and 0 when N = 0.
C13_StatsCountGetsAndHits ==
    last.op = "stats"
    => LET stats == last.ret[1]
           N == gets.calls
           H == gets.hits
       IN  /\ ~last.raised
           /\ stats.total_requests = N
           /\ stats.cache_hits = H
           /\ stats.cache_misses = N - H
           /\ N = 0 => stats.hit_rate_percentage = 0
           \* |rate / 10 - H / N * 100| <= 0.05
           /\ N > 0 => 2 * Abs(stats.hit_rate_percentage * N - 1000 * H) <= N

\* C13's case: the statistics after three gets of which two returned an
\* entry, a rate that has to be rounded up (66.7).
C13_Witness ==
    /\ last.op = "stats"
    /\ gets.calls = 3
    /\ gets.hits = 2
    /\ last.ret[1].hit_rate_percentage = 667

----------------------------------------------------------------------------
(* Stored entries *)

\* The cache_entry the most recent cache_response on request r wrote.
EntryPut(r) == CacheEntry(puts[r][1].response, puts[r][1].at, r.model_id, puts[r][1].ttl)

\* C14 as claimed: whatever get_cached_response and get_cache_stats calls
\* were made since, the value the store holds under a key is the one the most
\* recent cache_response on that key wrote, on either backend.
C14_StoredEntryIsWhatPutWrote ==
    \A r \in PutRequests :
        puts[r] # None
        => /\ ~cache_available => memory_cache[KeyOf(r)] = EntryPut(r)
           /\ (cache_available /\ KeyOf(r) \in DOMAIN redis_strings)
              => redis_strings[KeyOf(r)].value = JsonDumps(EntryPut(r))

----------------------------------------------------------------------------
(* The exact fingerprint *)

\* The dicts that hold the items of dict d, in every insertion order.
ItemOrders(d) == Orders({d[i] : i \in 1..Len(d)})

\* The requests that are request r as Python values: the same model_id and
\* max_tokens and, message by message, the same items in any insertion order.
SameTriple(r) ==
    {Request(r.model_id, messages, r.max_tokens) :
        messages \in {m \in [1..Len(r.messages) -> UNION {ItemOrders(r.messages[i]) :
                                                            i \in 1..Len(r.messages)}] :
                         \A i \in 1..Len(r.messages) : m[i] \in ItemOrders(r.messages[i])}}

\* Two message lists hold the same messages in another order.
Reordered(m1, m2) ==
    /\ m1 # m2
    /\ Len(m1) = Len(m2)
    /\ \E p \in [1..Len(m1) -> 1..Len(m1)] :
          /\ \A i, j \in 1..Len(m1) : i # j => p[i] # p[j]
          /\ \A i \in 1..Len(m1) : m2[i] = m1[p[i]]

\* C15: _generate_cache_key is a function of (model_id, messages, max_tokens)
\* alone: the key a cache_response stored an entry under is the key computed
\* in any later state for the same triple, whatever the insertion order of
\* the items of each message dict, so that the exact lookup finds the entry;
\* and two requests whose message lists are the same messages in another
\* order have different keys.
C15_KeyIsAFunctionOfTheTriple ==
    /\ \A r \in PutRequests :
          WithinTtl(r)
          => \A g \in SameTriple(r) :
                 /\ KeyOf(g) = KeyOf(r)
                 /\ ExactResult(g) = Some(puts[r][1].response)
    /\ \A g1, g2 \in GetRequests :
          (/\ g1.model_id = g2.model_id
           /\ g1.max_tokens = g2.max_tokens
           /\ Reordered(g1.messages, g2.messages))
          => KeyOf(g1) # KeyOf(g2)

\* C15's case: after two cache_response calls and a get_cached_response, the
\* base request's entry is found under the key of the same request with
\* 'content' inserted before 'role'.
C15_Witness ==
    /\ put_calls = 2
    /\ gets.calls >= 1
    /\ WithinTtl(BaseRequest)
    /\ LET g == Request("a", << <<<<"content", "abc">>, <<"role", "user">>>> >>, "None")
       IN  /\ g \in SameTriple(BaseRequest)
           /\ g # BaseRequest
           /\ ExactResult(g) = Some(puts[BaseRequest][1].response)
    /\ \E g1, g2 \in GetRequests : Reordered(g1.messages, g2.messages)

----------------------------------------------------------------------------
(* Calls in threads: properties *)

\* Thread t is in a get_cached_response that has its return value.
GetDone(t) == pc[t] = "done" /\ frame[t].op = "get"

\* The entries a cache_response of the threads writes.
ThreadEntries ==
    {CacheEntry(response, timestamp, r.model_id, ttl) :
        r \in ThreadPutRequests, response \in ThreadResponses,
        timestamp \in 0..MaxTime, ttl \in ThreadTTLs}

\* C16: however the steps of a cache_response (the write of the entry, HSET,
\* EXPIRE) and of a concurrent get_cached_response interleave, the get returns
\* None or a whole entry that a cache_response wrote, and it returns None when
\* the record its lookup selected last refers to an entry that is not in the
\* store.
C16_ConcurrentGetIsMissOrWholeEntry ==
    \A t \in Threads :
        GetDone(t)
        => /\ \/ frame[t].ret = None
              \/ \E entry \in ThreadEntries, tag \in {"exact_match", "semantic_match"} :
                    frame[t].ret = Some(Tagged(entry, tag))
           /\ frame[t].dangling => frame[t].ret = None

\* C16's case: while a cache_response is between its steps, a get has met a
\* semantic record whose entry is not in the store and is about to return
\* None.
C16_Witness ==
    \E t \in Threads :
        /\ GetDone(t)
        /\ frame[t].dangling
        /\ frame[t].ret = None
        /\ \E w \in Writers : frame[w].op = "put" /\ pc[w] \in {"hset", "expire"}

\* C17 as claimed: once the get_cached_response calls that ran in threads
\* have all returned, k of them, total_requests is k and hits + misses is k.
C17_NoCounterUpdateIsLost ==
    (\A t \in Threads : pc[t] = "idle")
    => /\ cache_stats.total_requests = gets.calls
       /\ cache_stats.hits + cache_stats.misses = gets.calls

\* C19 as claimed: the entry a semantic lookup returns was read through the
\* scanned record of the greatest similarity that meets the threshold, never
\* through one of a lower similarity than another scanned candidate.
C19_ReturnsTheBestCandidate ==
    \A t \in Threads :
        (GetDone(t) /\ frame[t].ret # None /\ frame[t].ret[1].cache_type = "semantic_match")
        => ~Greater(frame[t].best_similarity, frame[t].match_similarity)

----------------------------------------------------------------------------
(* Semantic records *)

\* C18 as claimed: the semantic key is made of the model and the hash of the
\* normalized user text, so two records of one model whose messages normalize
\* to the same text are one record, the later cache_response having
\* overwritten the earlier.
C18_SameNormalizedTextSameRecord ==
    \A k1, k2 \in DOMAIN redis_hashes :
        (/\ k1.model_id = k2.model_id
         /\ _generate_semantic_key(redis_hashes[k1].message)
                = _generate_semantic_key(redis_hashes[k2].message))
        => k1 = k2

\* C20: the response_key of every semantic record is the exact key of a
\* request of the record's model whose last user message is the record's
\* message, the key under which the cache_response that wrote the record
\* stored its entry; an entry found under it is an entry of that model.
C20_RecordRefersToItsEntryKey ==
    \A k \in DOMAIN redis_hashes :
        /\ \E r \in PutRequests :
              /\ r.model_id = k.model_id
              /\ LastUserMessage(r.messages) = Some(redis_hashes[k].message)
              /\ k = SemanticKey(r.model_id, redis_hashes[k].message)
              /\ redis_hashes[k].response_key = KeyOf(r)
        /\ redis_hashes[k].response_key \in DOMAIN redis_strings
           => JsonLoads(redis_strings[redis_hashes[k].response_key].value).model_id
                  = k.model_id

\* C20's case: two records after two cache_response calls, one whose entry is
\* in the store and one whose entry was never written.
C20_Witness ==
    /\ PutReturned
    /\ \E k1, k2 \in DOMAIN redis_hashes :
          /\ k1 # k2
          /\ redis_hashes[k1].response_key \in DOMAIN redis_strings
          /\ redis_hashes[k2].response_key \notin DOMAIN redis_strings

----------------------------------------------------------------------------
(* The user text of a message list *)

\* The positions of the messages with role 'user'.
UserPositions(messages) ==
    {i \in 1..Len(messages) : ItemGet(messages[i], "role", "") = "user"}

\* The content of the user message at the greatest position, '' when it has
\* no content; None when no message has role 'user'.
UserText(messages) ==
    IF UserPositions(messages) = {} THEN None
    ELSE LET i == CHOOSE i \in UserPositions(messages) :
                      \A j \in UserPositions(messages) : j <= i
         IN  Some(ItemGet(messages[i], "content", ""))

\* The message list has a user text that is not empty.
HasUserText(messages) == UserText(messages) # None /\ UserText(messages)[1] # ""

\* The entry under the exact key of request r in the state, None when none.
StoredEntry(r) == _get_from_cache(KeyOf(r), FALSE).value

\* C21, cache_response: the call writes the exact entry; when the list has a
\* user text it writes the semantic record of that text (on Redis), referring
\* to the exact key, and no other; when it has none, it writes no semantic
\* record.
C21_PutStep ==
    (last'.op = "put" /\ last.op = "none")
    => LET a == last'.args[1]
           r == a.request
           key == SemanticKey(r.model_id, UserText(r.messages)[1])
       IN  /\ ~last'.raised
           /\ IF cache_available
              THEN /\ KeyOf(r) \in DOMAIN redis_strings'
                   /\ JsonLoads(redis_strings'[KeyOf(r)].value).response = a.response
              ELSE /\ KeyOf(r) \in DOMAIN memory_cache'
                   /\ memory_cache'[KeyOf(r)].response = a.response
           /\ IF cache_available /\ HasUserText(r.messages)
              THEN /\ DOMAIN redis_hashes' = DOMAIN redis_hashes \cup {key}
                   /\ redis_hashes'[key].message = UserText(r.messages)[1]
                   /\ redis_hashes'[key].response_key = KeyOf(r)
                   /\ \A k \in DOMAIN redis_hashes \ {key} :
                          redis_hashes'[k] = redis_hashes[k]
              ELSE redis_hashes' = redis_hashes

\* C21, get_cached_response after an exact miss: without a user text the
\* call counts a miss and returns None; with one, what it returns is what the
\* scan of the records selects for that text.
C21_GetStep ==
    (last'.op = "get" /\ last.op = "none" /\ StoredEntry(last'.args[1].request) = None)
    => LET a == last'.args[1]
           r == a.request
           text == UserText(r.messages)[1]
           S == Selected(a.keys, text, a.threshold)
       IN  /\ ~last'.raised
           /\ UNCHANGED <<redis_strings, redis_hashes, memory_cache>>
           /\ IF HasUserText(r.messages) /\ cache_available /\ S # {}
              THEN \E i \in S :
                      LET response_key == redis_hashes[a.keys[i]].response_key
                      IN  IF response_key \in DOMAIN redis_strings
                          THEN /\ last'.ret =
                                     Some(Tagged(JsonLoads(redis_strings[response_key].value),
                                                 "semantic_match"))
                               /\ cache_stats' = [cache_stats EXCEPT !.hits = @ + 1,
                                                     !.total_requests = @ + 1]
                          ELSE /\ last'.ret = None
                               /\ cache_stats' = [cache_stats EXCEPT !.misses = @ + 1,
                                                     !.total_requests = @ + 1]
              ELSE /\ last'.ret = None
                   /\ cache_stats' = [cache_stats EXCEPT !.misses = @ + 1,
                                                         !.total_requests = @ + 1]

\* C21: get_cached_response and cache_response both take as the user text the
\* content of the last message with role 'user'; when there is none, or its
\* content is empty, get_cached_response after an exact miss counts a miss
\* and returns None, whatever records the index holds, and cache_response
\* writes the exact entry and no semantic record.
C21_LastUserMessageIsTheUserText == [][C21_PutStep /\ C21_GetStep]_vars

\* C21's case: the index holds the record of 'abc', written by a
\* cache_response whose list has an earlier user message 'abd', and a
\* get_cached_response whose last user message is empty, after an earlier
\* user message 'abc', has missed.
C21_Witness ==
    /\ GetReturned
    /\ cache_available
    /\ GetArgs.request.messages = <<User("abc"), User("")>>
    /\ last.ret = None
    /\ StoredEntry(Request("a", <<User("abd"), User("abc")>>, "None")) # None
    /\ DOMAIN redis_hashes = {SemanticKey("a", "abc")}
    /\ put_calls = 2

----------------------------------------------------------------------------
(* The scan limit *)

\* The entry the record under key refers to, None when it is not in the store.
EntryOf(key) == _get_from_cache(redis_hashes[key].response_key, FALSE).value

\* The record under key meets the threshold for the user text.
MeetsThreshold(user_text, key, threshold) ==
    /\ redis_hashes[key].message # ""
    /\ Greater(Score(user_text, key), [num |-> 0, den |-> 1])
    /\ AtLeast(Score(user_text, key), threshold)

\* C22: the semantic lookup of a get_cached_response scores the records under
\* the first ScanLimit (20) keys of the KEYS answer and no other: an entry it
\* returns is the entry of one of these that meets the threshold, and when
\* none of these meets it the call returns None, whatever record is under a
\* later key.
C22_LookupScansTheFirstTwentyKeys ==
    (GetReturned /\ SemanticLookup(GetArgs))
    => LET text == LastUserMessage(GetArgs.request.messages)[1]
           First == 1..Min(ScanLimit, Len(GetArgs.keys))
           Met == {i \in First : MeetsThreshold(text, GetArgs.keys[i], GetArgs.threshold)}
       IN  /\ ~last.raised
           /\ last.ret # None
              => \E i \in Met :
                     last.ret = Some(Tagged(EntryOf(GetArgs.keys[i])[1], "semantic_match"))
           /\ Met = {} => last.ret = None

\* C22's case: the index holds 21 records of the model, the only one that
\* meets the threshold is under the 21st key of the KEYS answer and its entry
\* is in the store, and the get_cached_response returned None.
C22_Witness ==
    /\ GetReturned
    /\ SemanticLookup(GetArgs)
    /\ Len(GetArgs.keys) = ScanLimit + 1
    /\ LET text == LastUserMessage(GetArgs.request.messages)[1]
       IN  /\ MeetsThreshold(text, GetArgs.keys[ScanLimit + 1], GetArgs.threshold)
           /\ EntryOf(GetArgs.keys[ScanLimit + 1]) # None
           /\ \A i \in 1..ScanLimit :
                  ~MeetsThreshold(text, GetArgs.keys[i], GetArgs.threshold)
    /\ last.ret = None
    /\ cache_stats.misses >= 1

----------------------------------------------------------------------------
(* Stored payloads that are no entries *)

\* The string under the exact key of request r is a text that cache_response
\* never wrote.
HoldsForeignPayload(r) ==
    /\ cache_available
    /\ KeyOf(r) \in DOMAIN redis_strings
    /\ redis_strings[KeyOf(r)].value \in ForeignPayloads

\* The value is an entry as cache_response writes it.
IsEntry(v) == v.response \in PayloadResponses /\ v.model_id = "a" /\ v.ttl = ScanTTL

\* C23 as claimed: a get_cached_response on a key whose stored payload is
\* malformed or cannot be deserialized raises nothing and treats the exact
\* lookup as a miss: it returns None or an entry found by the semantic
\* lookup, never the malformed value.
C23_MalformedPayloadIsAMiss ==
    (GetReturned /\ HoldsForeignPayload(GetArgs.request))
    => /\ ~last.raised
       /\ \/ last.ret = None
          \/ /\ last.ret[1].cache_type = "semantic_match"
             /\ IsEntry(last.ret[1])

\* The part of C23 that holds: when the payload under the key is a text
\* json.loads rejects, the call raises nothing and the exact lookup is a miss.
C23_UndecodablePayloadIsAMiss ==
    (/\ GetReturned
     /\ HoldsForeignPayload(GetArgs.request)
     /\ redis_strings[KeyOf(GetArgs.request)].value = Truncated)
    => /\ ~last.raised
       /\ \/ last.ret = None
          \/ last.ret[1].cache_type = "semantic_match"

\* The case of that part: such a call has counted a miss while the entry of
\* the other request is in the store.
C23_UndecodableWitness ==
    /\ GetReturned
    /\ HoldsForeignPayload(GetArgs.request)
    /\ redis_strings[KeyOf(GetArgs.request)].value = Truncated
    /\ last.ret = None
    /\ cache_stats.misses = 1
    /\ \E r \in PayloadRequests : StoredEntry(r) # None /\ IsEntry(StoredEntry(r)[1])

----------------------------------------------------------------------------
(* The counters *)

\* The step is a call of get_cached_response.
GetStep == last'.op = "get" /\ last.op = "none"

\* C24: in every state of sequential calls hits + misses = total_requests;
\* a get_cached_response adds one to total_requests and one to exactly one of
\* hits and misses, to hits if and only if it returns an entry; no other
\* step (cache_response, get_cache_stats, the passing of time) changes a
\* counter.
C24_HitsPlusMissesIsTotal ==
    [][/\ cache_stats.hits + cache_stats.misses = cache_stats.total_requests
       /\ cache_stats'.hits + cache_stats'.misses = cache_stats'.total_requests
       /\ GetStep
          => /\ ~last'.raised
             /\ cache_stats' =
                   IF last'.ret # None
                   THEN [cache_stats EXCEPT !.total_requests = @ + 1, !.hits = @ + 1]
                   ELSE [cache_stats EXCEPT !.total_requests = @ + 1, !.misses = @ + 1]
       /\ ~GetStep => cache_stats' = cache_stats]_vars

\* C24's case: after three get_cached_response calls of which two returned
\* an entry, a cache_response and a get_cache_stats, the counters are 2 hits,
\* 1 miss and 3 requests.
C24_Witness ==
    /\ last.op = "stats"
    /\ put_calls >= 1
    /\ cache_stats.hits = 2
    /\ cache_stats.misses = 1
    /\ cache_stats.total_requests = 3
    /\ gets.hits = 2

----------------------------------------------------------------------------
(* The fallback backend *)

\* C25: on an instance whose probe failed, no semantic record is ever
\* written and Redis holds no key of the instance, and every entry a
\* get_cached_response returns is the entry memory_cache holds under the exact
\* key of the request, tagged exact_match: none is a semantic match.
C25_FallbackHasNoSemanticIndex ==
    ~probe
    => /\ ~cache_available
       /\ DOMAIN redis_hashes = {}
       /\ DOMAIN redis_strings = {}
       /\ (GetReturned /\ last.ret # None)
          => /\ last.ret[1].cache_type = "exact_match"
             /\ KeyOf(GetArgs.request) \in DOMAIN memory_cache
             /\ memory_cache[KeyOf(GetArgs.request)] = last.ret[1]

\* C25's case: on the fallback, after the base request was cached and found
\* by an exact hit, a get_cached_response of the same user text under another
\* max_tokens, which Redis would answer by a semantic match, has missed.
C25_Witness ==
    /\ ~probe
    /\ puts[BaseRequest] # None
    /\ gets.hits >= 1
    /\ GetReturned
    /\ GetArgs.request = Request("a", <<User("abc")>>, "150")
    /\ GetArgs.threshold = 50
    /\ last.ret = None

----------------------------------------------------------------------------
(* The analyzer loop *)

\* The entries the backend of the instance holds.
HeldEntries ==
    IF cache_available
    THEN {JsonLoads(redis_strings[k].value) : k \in DOMAIN redis_strings}
    ELSE {memory_cache[k] : k \in DOMAIN memory_cache}

\* The entry query j's cache_response wrote is within its ttl when query k is
\* looked up; the fallback keeps every entry.
StillCached(j, k) ==
    /\ analyzer.log[j].succeeded
    /\ analyzer.log[j].written
    /\ probe => analyzer.log[k].time < analyzer.log[j].time + ScanTTL

\* C26: in a run of the analyzer the inference service is called for a query
\* if and only if get_cached_response returned None for it, so that the calls
\* made are as many as the misses counted; a response is cached only after a
\* call that succeeded, and a failed call leaves nothing in the store; and a
\* query that is identical to an earlier one of the run whose answer was
\* cached and has not expired, and whose exact read Redis answers, causes no
\* second call.
C26_InferenceIsCalledOnMissesOnly ==
    LET L == analyzer.log
        Calls == {k \in 1..Len(L) : L[k].called}
    IN  /\ \A k \in 1..Len(L) :
              /\ L[k].called <=> ~L[k].hit
              /\ L[k].cached <=> (L[k].called /\ L[k].succeeded)
              /\ \A j \in 1..(k - 1) :
                     (/\ L[j].query = L[k].query
                      /\ StillCached(j, k)
                      /\ ~L[k].read_failed)
                     => ~L[k].called
        /\ Cardinality(Calls) + (IF analyzer.at = "call" THEN 1 ELSE 0)
               = cache_stats.misses
        /\ Len(L) - Cardinality(Calls) = cache_stats.hits
        /\ put_calls = Cardinality({k \in Calls : L[k].succeeded})
        /\ \A entry \in HeldEntries : entry.response \in AnalyzerResponses

\* C26's case: of three identical queries the first one's call failed and the
\* store stayed empty, the second was called again and its answer cached, and
\* the third was an exact hit that caused no call.
C26_Witness ==
    /\ analyzer.at = "end"
    /\ probe
    /\ Len(analyzer.log) = 3
    /\ \A k \in 1..3 : analyzer.log[k].query = "abc"
    /\ analyzer.log[1].called /\ ~analyzer.log[1].succeeded
    /\ analyzer.log[2].called /\ analyzer.log[2].succeeded /\ analyzer.log[2].written
    /\ analyzer.log[3].hit /\ ~analyzer.log[3].called
    /\ put_calls = 1
    /\ Cardinality(HeldEntries) = 1

====
